---- MODULE Spec2Model ----
(***************************************************************************)
(* State-machine model of the naija-lingo course marketplace front-end.    *)
(*                                                                         *)
(* The components are modelled each with its own specification:           *)
(*   SpecCatalog : Index.applyFilters, the catalog search/filter/sort      *)
(*   SpecPrice   : the same pipeline on price strings that are no number   *)
(*   SpecEnroll  : EnrollmentButton and CourseDetail enroll controls       *)
(*   SpecUpload  : FileUploader and LessonUploader upload trackers         *)
(*   SpecUploadLive : SpecUpload with answers and timers that do arrive    *)
(*   SpecAuthor  : LessonManagement and QuizManager authoring forms        *)
(*   SpecQuiz    : the QuizManager dialog with its question editor, from   *)
(*                 the states of SpecAuthor where a quiz lesson is open    *)
(*   SpecNotification : NotificationCenter and its subscription            *)
(*   SpecRequests : every component that sends enroll, save, delete or     *)
(*                 upload requests, the user working with one of them      *)
(*   SpecPages   : EditCourse and LessonManagement loading their course    *)
(*   SpecOrder   : creating, editing and deleting the lessons of a course  *)
(*   SpecDraft   : the questions of a new quiz draft                       *)
(*   SpecFilter  : the filter panel of SearchAndFilter on the catalog page *)
(*                                                                         *)
(* JavaScript strings are modelled as sequences of one-character strings,  *)
(* so that toLowerCase, includes, split, trim, replace and parseFloat are  *)
(* computed rather than assumed.                                           *)
(***************************************************************************)
EXTENDS Integers, Sequences, FiniteSets, TLC

VARIABLES
    \* ---- Index (catalog page) ----
    courses,            \* Index.courses
    loadedCourses,      \* the list fetchRealCourses handed to setCourses
    filteredCourses,    \* Index.filteredCourses
    loading,            \* Index.loading
    searchQuery,        \* Index.searchQuery
    selectedLanguage,   \* Index.selectedLanguage
    selectedLevel,      \* Index.selectedLevel
    sortBy,             \* Index.sortBy
    lastFilter,         \* the filters of the last onFilter call of SearchAndFilter
    \* ---- AuthContext, course and enrollments table (data service) ----
    authLoading,        \* useAuth().loading
    user,               \* useAuth().user: signed in or not
    userProfile,        \* useAuth().userProfile: <<>> or <<[id, role]>>
    isPublished,        \* courses.is_published of the course viewed
    enrollments,        \* rows of the enrollments table
    \* ---- EnrollmentButton ----
    eb_enrollment,      \* EnrollmentButton.enrollment: <<>> or <<row>>
    eb_loading,         \* EnrollmentButton.loading
    eb_enrolling,       \* EnrollmentButton.enrolling
    eb_enrollmentCount, \* EnrollmentButton.enrollmentCount
    eb_check,           \* checkEnrollment requests in flight, by call site
    eb_count,           \* getEnrollmentCount requests in flight, by call site
    eb_insert,          \* the insert of handleEnroll in flight
    eb_toast,           \* the last toast EnrollmentButton showed
    \* ---- CourseDetail ----
    cd_course,          \* CourseDetail.course: <<>> or <<row>>
    cd_courseLoading,   \* CourseDetail.courseLoading
    cd_enrollment,      \* CourseDetail.enrollment
    cd_enrolling,       \* CourseDetail.enrolling
    cd_fetch,           \* the fetchCourse request in flight
    cd_check,           \* checkEnrollment requests in flight, by call site
    cd_insert,          \* the insert of handleEnroll in flight
    cd_toast,           \* the last toast CourseDetail showed
    cd_left,            \* the page navigated away
    \* ---- observation of the enroll controls ----
    insertIssued,       \* per control: an insert was sent
    lastInsertResult,   \* per control: the answer to its last insert
    \* ---- FileUploader ----
    accept,             \* FileUploader prop accept
    uploadingFiles,     \* FileUploader.uploadingFiles
    fu_transfers,       \* files whose supabase.storage upload is awaited
    \* ---- LessonUploader ----
    uploads,            \* LessonUploader.uploads
    lu_tasks,           \* simulateUpload calls running: uploadId -> next progress
    objectUrls,         \* object URLs created and not revoked
    \* ---- observation of the uploaders ----
    selected,           \* every file handed to an uploader, in order
    completeCalls,      \* calls of onUploadComplete / onFileUploaded
    errorCalls,         \* calls of onUploadError
    \* ---- lessons and quizzes tables (data service) ----
    lessonRows,         \* rows of the lessons table of the course
    quizRows,           \* rows of the quizzes table
    \* ---- LessonManagement ----
    lm_lessons,         \* LessonManagement.lessons
    lm_isDialogOpen,    \* LessonManagement.isDialogOpen
    lm_editingLesson,   \* LessonManagement.editingLesson: <<>> or <<row>>
    lm_submitting,      \* LessonManagement.submitting
    lm_error,           \* LessonManagement.error: <<>> or <<message>>
    lm_lessonType,      \* LessonManagement.lessonType
    lm_fetchLessons,    \* a fetchLessons request is awaited
    dom,                \* values of the inputs of the lesson form
    \* ---- QuizManager ----
    qm_quizzes,         \* QuizManager.quizzes
    qm_loading,         \* QuizManager.loading
    qm_dialogOpen,      \* QuizManager.dialogOpen
    qm_editingQuiz,     \* QuizManager.editingQuiz: <<>> or <<row>>
    qm_title,           \* QuizManager.title
    qm_questions,       \* QuizManager.questions
    qm_fetchQuizzes,    \* a fetchQuizzes request is awaited
    \* ---- requests of the authoring forms and their observation ----
    pending,            \* create-or-update requests awaiting their answer
    sentCount,          \* per table: number of create-or-update requests sent
    lastSubmit,         \* the last submit event: its form and validation message
    lastAnswer,         \* the last answer to a create-or-update request
    \* ---- NotificationCenter ----
    nc_notifications,   \* NotificationCenter.notifications
    nc_unreadCount,     \* NotificationCenter.unreadCount
    nc_loading,         \* NotificationCenter.loading
    delivered,          \* the INSERT events the subscription handler was called with
    \* ---- EditCourse and LessonManagement: loading the course of the page ----
    ec_course,          \* EditCourse.course: <<>> or <<row>>
    ec_fetches,         \* fetchCourse calls awaited: the userProfile each closed over
    ec_toasts,          \* the toasts EditCourse showed, in order
    ec_left,            \* EditCourse called navigate('/dashboard')
    lm_course,          \* LessonManagement.course
    lm_loading,         \* LessonManagement.loading
    lm_courseFetch,     \* fetchCourse calls awaited, as ec_fetches
    lm_toasts,          \* the toasts LessonManagement.fetchCourse showed
    lm_left,            \* LessonManagement called navigate('/dashboard')
    \* ---- the browser ----
    focus               \* the part of the application the user works with

catalogVars == <<courses, loadedCourses, filteredCourses, loading, searchQuery,
                 selectedLanguage, selectedLevel, sortBy, lastFilter>>

serviceVars == <<authLoading, user, userProfile, isPublished, enrollments>>

ebVars == <<eb_enrollment, eb_loading, eb_enrolling, eb_enrollmentCount,
            eb_check, eb_count, eb_insert, eb_toast>>

cdVars == <<cd_course, cd_courseLoading, cd_enrollment, cd_enrolling, cd_fetch,
            cd_check, cd_insert, cd_toast, cd_left>>

enrollObs == <<insertIssued, lastInsertResult>>

enrollVars == <<serviceVars, ebVars, cdVars, enrollObs>>

fuVars == <<accept, uploadingFiles, fu_transfers>>

luVars == <<uploads, lu_tasks, objectUrls>>

uploadObs == <<selected, completeCalls, errorCalls>>

uploadVars == <<fuVars, luVars, uploadObs>>

tableVars == <<lessonRows, quizRows>>

lmVars == <<lm_lessons, lm_isDialogOpen, lm_editingLesson, lm_submitting,
            lm_error, lm_lessonType, lm_fetchLessons, dom>>

qmVars == <<qm_quizzes, qm_loading, qm_dialogOpen, qm_editingQuiz, qm_title,
            qm_questions, qm_fetchQuizzes>>

authorObs == <<pending, sentCount, lastSubmit, lastAnswer>>

authorVars == <<tableVars, lmVars, qmVars, authorObs>>

notificationVars == <<nc_notifications, nc_unreadCount, nc_loading, delivered>>

pageVars == <<ec_course, ec_fetches, ec_toasts, ec_left, lm_course, lm_loading,
              lm_courseFetch, lm_toasts, lm_left>>

vars == <<catalogVars, enrollVars, uploadVars, authorVars, notificationVars,
          pageVars, focus>>

nonCatalogVars == <<enrollVars, uploadVars, authorVars, notificationVars,
                    pageVars, focus>>
nonEnrollVars == <<catalogVars, uploadVars, authorVars, notificationVars,
                   pageVars, focus>>
nonUploadVars == <<catalogVars, enrollVars, authorVars, notificationVars,
                   pageVars, focus>>
nonAuthorVars == <<catalogVars, enrollVars, uploadVars, notificationVars,
                   pageVars, focus>>
nonNotificationVars == <<catalogVars, enrollVars, uploadVars, authorVars,
                         pageVars, focus>>
\* All but the session of AuthContext and the pages that load their course.
nonPageVars == <<catalogVars, isPublished, enrollments, ebVars, cdVars,
                 enrollObs, uploadVars, authorVars, notificationVars, focus>>

------------------------------------------------------------------------------
(* Bounds of the model *)

\* The largest number of rows the courses query returns.
MaxCatalog == 3

------------------------------------------------------------------------------
(* JavaScript string helpers *)

UpperCase == <<"A","B","C","D","E","F","G","H","I","J","K","L","M",
               "N","O","P","Q","R","S","T","U","V","W","X","Y","Z">>
LowerCase == <<"a","b","c","d","e","f","g","h","i","j","k","l","m",
               "n","o","p","q","r","s","t","u","v","w","x","y","z">>

Digit == <<"0","1","2","3","4","5","6","7","8","9">>

\* A JavaScript number is <<n>>; the value JavaScript calls NaN is <<>>.
NaN == <<>>
Num(n) == <<n>>

toLowerCaseChar(c) ==
    IF \E i \in DOMAIN UpperCase : UpperCase[i] = c
    THEN LowerCase[CHOOSE i \in DOMAIN UpperCase : UpperCase[i] = c]
    ELSE c

\* String.prototype.toLowerCase
toLowerCase(s) == [i \in 1..Len(s) |-> toLowerCaseChar(s[i])]

\* String.prototype.includes
includes(s, sub) ==
    \E i \in 0..(Len(s) - Len(sub)) : SubSeq(s, i + 1, i + Len(sub)) = sub

\* String.prototype.replace(/[...]/g, '') for a character class cls
RECURSIVE replaceAll(_, _)
replaceAll(s, cls) ==
    IF s = <<>> THEN <<>>
    ELSE IF Head(s) \in cls THEN replaceAll(Tail(s), cls)
         ELSE <<Head(s)>> \o replaceAll(Tail(s), cls)

IsDigit(c) == \E i \in DOMAIN Digit : Digit[i] = c
DigitValue(c) == (CHOOSE i \in DOMAIN Digit : Digit[i] = c) - 1

\* The value of the longest prefix of s made of decimal digits, acc being the
\* value read so far.
RECURSIVE digitsPrefix(_, _)
digitsPrefix(s, acc) ==
    IF s = <<>> \/ ~IsDigit(Head(s)) THEN acc
    ELSE digitsPrefix(Tail(s), 10 * acc + DigitValue(Head(s)))

\* parseFloat on the strings of the model (no sign, fraction or exponent occurs
\* in them): the number spelled by the leading digits, NaN when there is none.
parseFloat(s) ==
    IF s = <<>> \/ ~IsDigit(Head(s)) THEN NaN ELSE Num(digitsPrefix(s, 0))

\* The decimal digits of a natural number.
RECURSIVE digitsOf(_)
digitsOf(n) ==
    IF n < 10 THEN <<Digit[n + 1]>>
    ELSE digitsOf(n \div 10) \o <<Digit[(n % 10) + 1]>>

\* A digit string with a comma before every group of three digits counted from
\* the right (en-US grouping).
RECURSIVE groupThousands(_)
groupThousands(ds) ==
    IF Len(ds) <= 3 THEN ds
    ELSE groupThousands(SubSeq(ds, 1, Len(ds) - 3)) \o <<",">>
         \o SubSeq(ds, Len(ds) - 2, Len(ds))

\* Number.prototype.toLocaleString() of a non-negative integer (en-US).
toLocaleString(n) == groupThousands(digitsOf(n))

\* String.prototype.split(sep) for a one-character separator: the pieces
\* between the separators, one piece (the string itself) when there is none.
RECURSIVE split(_, _)
split(s, sep) ==
    IF \A i \in 1..Len(s) : s[i] # sep THEN <<s>>
    ELSE LET k == CHOOSE i \in 1..Len(s) :
                     s[i] = sep /\ \A j \in 1..(i - 1) : s[j] # sep
         IN  <<SubSeq(s, 1, k - 1)>> \o split(SubSeq(s, k + 1, Len(s)), sep)

\* Array.prototype.pop() read as a value: the last element.
pop(a) == a[Len(a)]

RECURSIVE trimStart(_)
trimStart(s) ==
    IF s # <<>> /\ Head(s) = " " THEN trimStart(Tail(s)) ELSE s

RECURSIVE trimEnd(_)
trimEnd(s) ==
    IF s # <<>> /\ s[Len(s)] = " " THEN trimEnd(SubSeq(s, 1, Len(s) - 1)) ELSE s

\* String.prototype.trim
trim(s) == trimEnd(trimStart(s))

\* String.prototype.startsWith
startsWith(s, prefix) ==
    Len(s) >= Len(prefix) /\ SubSeq(s, 1, Len(prefix)) = prefix

------------------------------------------------------------------------------
(* Index: the catalog page *)

Free == <<"F","r","e","e">>
Naira == "N="    \* the currency sign U+20A6

Yoruba == <<"Y","o","r","u","b","a">>
Igbo == <<"I","g","b","o">>
Hausa == <<"H","a","u","s","a">>

\* The price column of a mapped course (Index.tsx line 111).
formatPrice(price) ==
    IF price = 0 THEN Free ELSE <<Naira>> \o toLocaleString(price)

mockCourses ==
    << [id |-> 1, title |-> <<"C","o","m","p","l","e","t","e"," ">> \o Yoruba,
        instructor |-> <<"A","d","e","b","a","y","o">>,
        language |-> Yoruba, level |-> <<"B","e","g","i","n","n","e","r">>,
        students |-> 2547, rating |-> 49,
        price |-> <<Naira,"1","5",",","0","0","0">>],
       [id |-> 2, title |-> <<"B","u","s","i","n","e","s","s"," ">> \o Igbo,
        instructor |-> <<"C","h","i","o","m","a">>,
        language |-> Igbo,
        level |-> <<"I","n","t","e","r","m","e","d","i","a","t","e">>,
        students |-> 1832, rating |-> 48,
        price |-> <<Naira,"1","8",",","0","0","0">>],
       [id |-> 3, title |-> Hausa \o <<" ","M","a","s","t","e","r","y">>,
        instructor |-> <<"M","u","s","a">>,
        language |-> Hausa,
        level |-> <<"I","n","t","e","r","m","e","d","i","a","t","e">>,
        students |-> 1456, rating |-> 47,
        price |-> Free] >>

\* profiles?.full_name when the row has no profile, or an empty name.
NoProfile == <<>>

\* Rows of the courses table that the published-courses query can return.
\* rating is kept in tenths (4.8 is 48).
CourseRows ==
    { [id |-> 11, title |-> <<"O","r","o">>, full_name |-> <<"A","d","e">>,
       language |-> Yoruba, level |-> <<"b","e","g","i","n","n","e","r">>,
       price |-> 0, count |-> 5],
      [id |-> 12, title |-> <<"I","g","b","o"," ","1">>, full_name |-> NoProfile,
       language |-> Igbo, level |-> <<"b","e","g","i","n","n","e","r">>,
       price |-> 1500, count |-> 0],
      [id |-> 13, title |-> <<"E","k","o">>, full_name |-> <<"I","g","e">>,
       language |-> Yoruba, level |-> <<"a","d","v","a","n","c","e","d">>,
       price |-> 200, count |-> 5],
      [id |-> 14, title |-> <<"A","d","e"," ","2">>, full_name |-> <<"U","c","h","e">>,
       language |-> Igbo, level |-> <<"a","d","v","a","n","c","e","d">>,
       price |-> 15000, count |-> 0] }

UnknownInstructor == <<"U","n","k","n","o","w","n">>

\* The mapping of one database row (Index.tsx lines 102-114).
mapCourse(row) ==
    [id |-> row.id,
     title |-> row.title,
     instructor |-> IF row.full_name = NoProfile THEN UnknownInstructor
                    ELSE row.full_name,
     language |-> row.language,
     level |-> row.level,
     students |-> row.count,
     rating |-> 48,
     price |-> formatPrice(row.price)]

\* a - b on JavaScript numbers: NaN when either side is NaN.
Minus(a, b) == IF a = NaN \/ b = NaN THEN NaN ELSE Num(a[1] - b[1])

\* The price read back from its display string (Index.tsx lines 164-165).
parsePrice(p) ==
    IF p = Free THEN Num(0) ELSE parseFloat(replaceAll(p, {Naira, ","}))

\* Mutant: ascending by student count.
comparePopular_ascending(a, b) == Minus(Num(a.students), Num(b.students))
\* Mutant: never reports two courses as equal, so ties change places.
comparePopular_noTies(a, b) ==
    IF b.students >= a.students THEN Num(1) ELSE Num(-1)
comparePopular(a, b) == Minus(Num(b.students), Num(a.students))
compareRating(a, b) == Minus(Num(b.rating), Num(a.rating))
comparePriceLow(a, b) == Minus(parsePrice(a.price), parsePrice(b.price))
comparePriceHigh(a, b) == Minus(parsePrice(b.price), parsePrice(a.price))

\* The comparator the switch on sortBy selects (Index.tsx lines 152-178).
compareFn(key, a, b) ==
    CASE key = "popular" -> comparePopular(a, b)
      [] key = "rating" -> compareRating(a, b)
      [] key = "price-low" -> comparePriceLow(a, b)
      [] key = "price-high" -> comparePriceHigh(a, b)

SortsOn(key) == key \in {"popular", "rating", "price-low", "price-high"}

\* Array.prototype.sort reads a NaN comparator result as +0.
cmpValue(v) == IF v = NaN THEN 0 ELSE v[1]

\* x placed into the sorted sequence s, after every element it does not
\* precede: a stable insertion.
RECURSIVE insertSorted(_, _, _)
insertSorted(key, s, x) ==
    IF s = <<>> THEN <<x>>
    ELSE IF cmpValue(compareFn(key, s[Len(s)], x)) <= 0
         THEN s \o <<x>>
         ELSE insertSorted(key, SubSeq(s, 1, Len(s) - 1), x) \o <<s[Len(s)]>>

\* Array.prototype.sort with the comparator of key: a stable insertion sort.
RECURSIVE sortWith(_, _)
sortWith(key, s) ==
    IF s = <<>> THEN <<>>
    ELSE insertSorted(key, sortWith(key, SubSeq(s, 1, Len(s) - 1)), s[Len(s)])


\* Mutant: the instructor name is not searched.
matchesSearch_noInstructor(course, q) ==
    \/ includes(toLowerCase(course.title), toLowerCase(q))
    \/ includes(toLowerCase(course.language), toLowerCase(q))
matchesSearch(course, q) ==
    \/ includes(toLowerCase(course.title), toLowerCase(q))
    \/ includes(toLowerCase(course.instructor), toLowerCase(q))
    \/ includes(toLowerCase(course.language), toLowerCase(q))

All == <<"a","l","l">>

matchesLanguage(course, lang) ==
    toLowerCase(course.language) = toLowerCase(lang)

matchesLevel(course, lvl) ==
    toLowerCase(course.level) = toLowerCase(lvl)

\* Index.applyFilters as a function of the state it reads; Array.prototype.filter
\* is SelectSeq.
applyFilters(cs, q, lang, lvl, key) ==
    LET bySearch(c) == matchesSearch(c, q)
        byLanguage(c) == matchesLanguage(c, lang)
        byLevel(c) == matchesLevel(c, lvl)
        f1 == IF q # <<>> THEN SelectSeq(cs, bySearch) ELSE cs
        f2 == IF lang # <<>> /\ lang # All THEN SelectSeq(f1, byLanguage) ELSE f1
        f3 == IF lvl # <<>> /\ lvl # All THEN SelectSeq(f2, byLevel) ELSE f2
    IN IF SortsOn(key) THEN sortWith(key, f3) ELSE f3

\* let filtered = courses: the same array under another name.
spread_alias(cs) == "courses"

\* let filtered = [...courses]: a new array with the elements of courses.
spread(cs) == "new"

\* The array that filtered names when applyFilters sorts: the one it began
\* with, or the new array Array.prototype.filter returned.
sortedArray(cs, q, lang, lvl) ==
    IF \/ q # <<>>
       \/ lang # <<>> /\ lang # All
       \/ lvl # <<>> /\ lvl # All
    THEN "new"
    ELSE spread(cs)

\* The elements of the courses array when applyFilters has run:
\* Array.prototype.sort sorts the array that filtered names in place.
coursesAfter(cs, q, lang, lvl, key) ==
    IF SortsOn(key) /\ sortedArray(cs, q, lang, lvl) = "courses"
    THEN sortWith(key, cs)
    ELSE cs

\* The useEffect on [courses, searchQuery, selectedLanguage, selectedLevel,
\* sortBy]: applyFilters runs on the courses array cs and the state the handler
\* leaves.
applyFiltersEffect(cs) ==
    /\ filteredCourses' = applyFilters(cs, searchQuery', selectedLanguage',
                                       selectedLevel', sortBy')
    /\ courses' = coursesAfter(cs, searchQuery', selectedLanguage',
                               selectedLevel', sortBy')

RECURSIVE SeqsOfDistinct(_, _)
\* The sequences of at most n distinct elements of S.
SeqsOfDistinct(S, n) ==
    IF n = 0 THEN {<<>>}
    ELSE {<<>>} \cup UNION { { <<x>> \o t : t \in SeqsOfDistinct(S \ {x}, n - 1) }
                             : x \in S }

mapSeq(rows) == [i \in 1..Len(rows) |-> mapCourse(rows[i])]

\* Texts the search box submits.
SearchQueries == { <<>>, <<"y","o","r","u","b","a">>, <<"A","D","e">> }

\* Values handed to setSelectedLanguage (LanguageFilter and SearchAndFilter).
LanguageChoices == { <<>>, All, <<"y","o","r","u","b","a">> }

\* Values handed to setSelectedLevel.
LevelChoices ==
    { <<>>, All, <<"b","e","g","i","n","n","e","r">>,
      <<"A","d","v","a","n","c","e","d">> }

\* The sort keys applyFilters names.
SortKeys == {"popular", "rating", "newest", "price-low", "price-high"}

\* The values of the items of the sort Select of SearchAndFilter.
SortSelectItems ==
    {"newest", "oldest", "title_asc", "title_desc", "price_low", "price_high"}

\* Values handed to setSortBy: the keys of applyFilters and the keys the
\* SearchAndFilter control emits.
SortChoices == SortKeys \cup SortSelectItems

\* null or undefined, and a value that is there.
Null == <<>>
Some(x) == <<x>>

\* No call of onFilter yet.
NoFilterCall == [language |-> Null, level |-> Null, calls |-> 0]

CatalogInit ==
    /\ courses = <<>>
    /\ loadedCourses = <<>>
    /\ filteredCourses = <<>>
    /\ loading = TRUE
    /\ searchQuery = <<>>
    /\ selectedLanguage = <<>>
    /\ selectedLevel = <<>>
    /\ sortBy = "popular"
    /\ lastFilter = NoFilterCall

\* fetchRealCourses: the query answers with rows (mapped), with no rows or with
\* an error (both fall back to the mock courses).
fetchRealCourses ==
    /\ loading
    /\ UNCHANGED <<searchQuery, selectedLanguage, selectedLevel, sortBy, lastFilter>>
    /\ \E rows \in SeqsOfDistinct(CourseRows, MaxCatalog) :
          \/ /\ loadedCourses' = IF Len(rows) > 0 THEN mapSeq(rows) ELSE mockCourses
             /\ applyFiltersEffect(loadedCourses')
          \/ /\ loadedCourses' = mockCourses
             /\ applyFiltersEffect(loadedCourses')
    /\ loading' = FALSE
    /\ UNCHANGED nonCatalogVars

setSearchQuery ==
    /\ \E q \in SearchQueries : q # searchQuery /\ searchQuery' = q
    /\ UNCHANGED <<loadedCourses, loading, selectedLanguage, selectedLevel, sortBy,
                   lastFilter>>
    /\ applyFiltersEffect(courses)
    /\ UNCHANGED nonCatalogVars

setSelectedLanguage ==
    /\ \E l \in LanguageChoices : l # selectedLanguage /\ selectedLanguage' = l
    /\ UNCHANGED <<loadedCourses, loading, searchQuery, selectedLevel, sortBy,
                   lastFilter>>
    /\ applyFiltersEffect(courses)
    /\ UNCHANGED nonCatalogVars

setSelectedLevel ==
    /\ \E l \in LevelChoices : l # selectedLevel /\ selectedLevel' = l
    /\ UNCHANGED <<loadedCourses, loading, searchQuery, selectedLanguage, sortBy,
                   lastFilter>>
    /\ applyFiltersEffect(courses)
    /\ UNCHANGED nonCatalogVars

setSortBy ==
    /\ \E k \in SortChoices : k # sortBy /\ sortBy' = k
    /\ UNCHANGED <<loadedCourses, loading, searchQuery, selectedLanguage,
                   selectedLevel, lastFilter>>
    /\ applyFiltersEffect(courses)
    /\ UNCHANGED nonCatalogVars

\* ---- the filter panel of SearchAndFilter ----

MaxFilterCalls == 3

\* The values of the items of the language and of the level Select.
LanguageSelectItems == {All, Yoruba, Igbo}
LevelSelectItems == {All, <<"b","e","g","i","n","n","e","r">>}

\* A value that a JavaScript condition takes for true: a non-empty string.
truthy(opt) == opt # Null /\ opt[1] # <<>>

\* filters.language || 'all' of the Select values; value === 'all' ? undefined
\* : value of their onValueChange.
shownItem(state) == IF state = <<>> THEN All ELSE state
emitted(value) == IF value = All THEN Null ELSE Some(value)

\* Object.values(filters).some(value => value && value !== 'all') of the
\* filters Index hands to the control.
hasActiveFilters ==
    \/ selectedLanguage # <<>> /\ selectedLanguage # All
    \/ selectedLevel # <<>> /\ selectedLevel # All

\* The onFilter callback Index gives to SearchAndFilter, and the effect on
\* the state it sets.
Index_onFilter(language, level) ==
    /\ lastFilter.calls < MaxFilterCalls
    /\ lastFilter' = [language |-> language, level |-> level,
                      calls |-> lastFilter.calls + 1]
    /\ selectedLanguage' = IF truthy(language) THEN language[1] ELSE selectedLanguage
    /\ selectedLevel' = IF truthy(level) THEN level[1] ELSE selectedLevel
    /\ UNCHANGED <<loadedCourses, loading, searchQuery, sortBy>>
    /\ IF selectedLanguage' # selectedLanguage \/ selectedLevel' # selectedLevel
       THEN applyFiltersEffect(courses)
       ELSE UNCHANGED <<courses, filteredCourses>>
    /\ UNCHANGED nonCatalogVars

\* clearFilters: the Clear button, rendered when a filter is active.
SearchAndFilter_clearFilters ==
    /\ hasActiveFilters
    /\ Index_onFilter(Null, Null)

\* onValueChange of the language Select: {...filters, language: ...}.
SearchAndFilter_selectLanguage ==
    \E value \in LanguageSelectItems \ {shownItem(selectedLanguage)} :
        Index_onFilter(emitted(value), Some(selectedLevel))

\* onValueChange of the level Select: {...filters, level: ...}.
SearchAndFilter_selectLevel ==
    \E value \in LevelSelectItems \ {shownItem(selectedLevel)} :
        Index_onFilter(Some(selectedLanguage), emitted(value))

\* The catalog page with the filter panel of SearchAndFilter and the language
\* buttons of LanguageFilter.
NextFilter ==
    \/ fetchRealCourses
    \/ setSelectedLanguage
    \/ SearchAndFilter_clearFilters
    \/ SearchAndFilter_selectLanguage
    \/ SearchAndFilter_selectLevel

NextCatalog ==
    \/ fetchRealCourses
    \/ setSearchQuery
    \/ setSelectedLanguage
    \/ setSelectedLevel
    \/ setSortBy

------------------------------------------------------------------------------
(* Claims about the catalog pipeline *)

Range(s) == { s[i] : i \in DOMAIN s }
Occurrences(s, x) == Cardinality({ i \in DOMAIN s : s[i] = x })

IsPermutation(s, t) ==
    /\ Len(s) = Len(t)
    /\ \A x \in Range(s) \cup Range(t) : Occurrences(s, x) = Occurrences(t, x)

\* The price a display string stands for: Free is 0, otherwise the digits left
\* after the currency sign and the separators are removed.
PriceOf(p) == IF p = Free THEN 0 ELSE digitsPrefix(replaceAll(p, {Naira, ","}), 0)

NoFilterSet ==
    /\ searchQuery = <<>>
    /\ selectedLanguage \in {<<>>, All}
    /\ selectedLevel \in {<<>>, All}

OrderedAsStated(key, s) ==
    CASE key = "popular" ->
            \A i, j \in DOMAIN s : i < j => s[i].students >= s[j].students
      [] key = "rating" ->
            \A i, j \in DOMAIN s : i < j => s[i].rating >= s[j].rating
      [] key = "newest" -> s = courses
      [] key = "price-low" ->
            \A i, j \in DOMAIN s : i < j => PriceOf(s[i].price) <= PriceOf(s[j].price)
      [] key = "price-high" ->
            \A i, j \in DOMAIN s : i < j => PriceOf(s[i].price) >= PriceOf(s[j].price)

\* C2: with no search text and no language or level filter, the display list is
\* a permutation of the catalog, ordered as the sort key states.
C2_SortedPermutation ==
    (NoFilterSet /\ sortBy \in SortKeys) =>
        /\ IsPermutation(filteredCourses, courses)
        /\ OrderedAsStated(sortBy, filteredCourses)

\* C2 witness: a catalog of three courses that the price-low sort reorders.
C2_Witness ==
    /\ NoFilterSet
    /\ sortBy = "price-low"
    /\ Len(courses) >= 3
    /\ filteredCourses # courses
    /\ PriceOf(filteredCourses[1].price) < PriceOf(filteredCourses[Len(courses)].price)

C3_Keeps(c) ==
    /\ \/ searchQuery = <<>>
       \/ includes(toLowerCase(c.title), toLowerCase(searchQuery))
       \/ includes(toLowerCase(c.instructor), toLowerCase(searchQuery))
       \/ includes(toLowerCase(c.language), toLowerCase(searchQuery))
    /\ \/ selectedLanguage \in {<<>>, All}
       \/ toLowerCase(selectedLanguage) = toLowerCase(c.language)
    /\ \/ selectedLevel \in {<<>>, All}
       \/ toLowerCase(selectedLevel) = toLowerCase(c.level)

\* C3: the display list holds exactly the catalog records that pass the search
\* text, the language filter and the level filter, each once.
C3_ExactlyMatching ==
    /\ Range(filteredCourses) = { c \in Range(courses) : C3_Keeps(c) }
    /\ \A c \in Range(filteredCourses) : Occurrences(filteredCourses, c) = 1

\* C3 witness: query "yoruba" over a catalog with a Yoruba and an Igbo course
\* keeps the Yoruba courses only.
C3_Witness ==
    /\ searchQuery = <<"y","o","r","u","b","a">>
    /\ \E c \in Range(courses) : c.language = Yoruba
    /\ \E c \in Range(courses) : c.language = Igbo
    /\ filteredCourses # <<>>
    /\ \A c \in Range(filteredCourses) : c.language = Yoruba

\* C4: applying the pipeline to its own output with the same settings gives the
\* same list.
C4_Idempotent ==
    applyFilters(filteredCourses, searchQuery, selectedLanguage, selectedLevel,
                 sortBy) = filteredCourses

\* C4 witness: a filtered and reordered list of at least two courses.
C4_Witness ==
    /\ searchQuery # <<>>
    /\ sortBy = "popular"
    /\ Len(filteredCourses) >= 2
    /\ Len(filteredCourses) < Len(courses)
    /\ \E i \in 1..Len(filteredCourses) - 1 :
          filteredCourses[i].students = filteredCourses[i + 1].students

\* C16: the pipeline never mutates its input: after any sequence of search,
\* filter and sort changes the catalog list holds the records it was loaded
\* with, in the same order, and the display list is another array than the
\* catalog list.
C16_InputNeverMutated ==
    /\ courses = loadedCourses
    /\ sortedArray(courses, searchQuery, selectedLanguage, selectedLevel) = "new"

\* With no filter set the display list was sorted into another order than the
\* catalog list is in.
C16_Witness ==
    /\ ~loading
    /\ searchQuery = <<>> /\ selectedLanguage = <<>> /\ selectedLevel = <<>>
    /\ sortBy \in {"popular", "price-high"}
    /\ Len(courses) >= 2
    /\ IsPermutation(filteredCourses, loadedCourses)
    /\ filteredCourses # loadedCourses

------------------------------------------------------------------------------
(* The price comparators on price strings that are no number *)

\* A price string that is not Free and leaves no number when the currency sign
\* and the separators are removed.
MalformedPrice == <<Naira, "T", "B", "D">>

\* The catalog records the price comparators are applied to: the mapped rows,
\* one of them with the malformed price string.
PricedCourses ==
    { IF row.id = 13 THEN [mapCourse(row) EXCEPT !.price = MalformedPrice]
      ELSE mapCourse(row) : row \in CourseRows }

\* The page with a loaded catalog, before any control was touched.
PriceInit ==
    /\ courses \in SeqsOfDistinct(PricedCourses, MaxCatalog)
    /\ loadedCourses = courses
    /\ filteredCourses = applyFilters(courses, <<>>, <<>>, <<>>, "popular")
    /\ loading = FALSE
    /\ searchQuery = <<>>
    /\ selectedLanguage = <<>>
    /\ selectedLevel = <<>>
    /\ sortBy = "popular"
    /\ lastFilter = NoFilterCall

NextPrice ==
    \/ setSearchQuery
    \/ setSelectedLanguage
    \/ setSelectedLevel
    \/ setSortBy

isMalformed(p) == p # Free /\ parseFloat(replaceAll(p, {Naira, ","})) = NaN

\* The price of a display string when a malformed one counts as 0.
PriceOrZero(p) == IF isMalformed(p) THEN 0 ELSE PriceOf(p)

C17_NoFailure ==
    sortBy \in {"price-low", "price-high"} =>
        IsPermutation(filteredCourses,
                      SelectSeq(courses, LAMBDA c : C3_Keeps(c)))

\* A comparison with a malformed price is read as a tie: a catalog of a priced
\* course followed by the malformed one keeps that order under price-low.
C17_ComparedAsTie ==
    /\ sortBy = "price-low"
    /\ Len(filteredCourses) = 2
    /\ PriceOf(filteredCourses[1].price) > 0
    /\ ~isMalformed(filteredCourses[1].price)
    /\ isMalformed(filteredCourses[2].price)

------------------------------------------------------------------------------
(* The enroll controls: EnrollmentButton and CourseDetail *)

CourseId == "c1"
OwnerId == "t1"

\* Profiles the identity service can hand out: a student, the teacher owning
\* the course and another teacher.
Profiles ==
    { [id |-> "s1", role |-> "student"],
      [id |-> OwnerId, role |-> "teacher"],
      [id |-> "t2", role |-> "teacher"] }

\* The courses row the pages view.
CourseRow == [id |-> CourseId, teacher_id |-> OwnerId, is_published |-> isPublished]

\* The row handleEnroll inserts (progress 0; CourseDetail leaves progress to
\* the column default).
EnrollmentRow(studentId) ==
    [course_id |-> CourseId, student_id |-> studentId, progress |-> 0,
     completed_at |-> Null]

RowsFor(courseId, studentId) ==
    SelectSeq(enrollments,
              LAMBDA r : r.course_id = courseId /\ r.student_id = studentId)

ToastSignIn == "Please sign in to enroll"
ToastOnlyStudents == "Only students can enroll in courses"
ToastNotPublished == "This course is not yet published"
ToastEnrolled == "Successfully enrolled"
ToastAlreadyEnrolled == "You are already enrolled in this course"
ToastFailedEnroll == "Failed to enroll in course"
ToastCourseNotFound == "Course not found"

\* The call sites of checkEnrollment and getEnrollmentCount.
CallSites == {"effect", "afterEnroll"}

role == IF userProfile = Null THEN "none" ELSE userProfile[1].role
profileId == IF userProfile = Null THEN "none" ELSE userProfile[1].id

\* The enroll controls and the tables before anything is mounted.
EnrollControlsIdle ==
    /\ isPublished = TRUE
    /\ enrollments = <<>>
    /\ eb_enrollment = Null
    /\ eb_loading = TRUE
    /\ eb_enrolling = FALSE
    /\ eb_enrollmentCount = 0
    /\ eb_check = [c \in CallSites |-> "idle"]
    /\ eb_count = [c \in CallSites |-> "idle"]
    /\ eb_insert = "idle"
    /\ eb_toast = ""
    /\ cd_course = Null
    /\ cd_courseLoading = TRUE
    /\ cd_enrollment = Null
    /\ cd_enrolling = FALSE
    /\ cd_fetch = "idle"
    /\ cd_check = [c \in CallSites |-> "idle"]
    /\ cd_insert = "idle"
    /\ cd_toast = ""
    /\ cd_left = FALSE
    /\ insertIssued = [c \in {"EnrollmentButton", "CourseDetail"} |-> FALSE]
    /\ lastInsertResult = [c \in {"EnrollmentButton", "CourseDetail"} |-> "none"]

EnrollIdle ==
    /\ authLoading = FALSE
    /\ user = FALSE
    /\ userProfile = Null
    /\ EnrollControlsIdle

\* The state in which both controls mount: the session is still being restored,
\* the course is published or not, and the student may hold an enrollment made
\* earlier. Mounting sends CourseDetail's fetchCourse; EnrollmentButton's effect
\* finds no user yet and clears loading.
EnrollInit ==
    /\ authLoading = TRUE
    /\ user = FALSE
    /\ userProfile = Null
    /\ isPublished \in BOOLEAN
    /\ enrollments \in {<<>>, <<EnrollmentRow("s1")>>}
    /\ eb_enrollment = Null
    /\ eb_loading = FALSE
    /\ eb_enrolling = FALSE
    /\ eb_enrollmentCount = 0
    /\ eb_check = [c \in CallSites |-> "idle"]
    /\ eb_count = [c \in CallSites |-> "idle"]
    /\ eb_insert = "idle"
    /\ eb_toast = ""
    /\ cd_course = Null
    /\ cd_courseLoading = TRUE
    /\ cd_enrollment = Null
    /\ cd_enrolling = FALSE
    /\ cd_fetch = "sent"
    /\ cd_check = [c \in CallSites |-> "idle"]
    /\ cd_insert = "idle"
    /\ cd_toast = ""
    /\ cd_left = FALSE
    /\ insertIssued = [c \in {"EnrollmentButton", "CourseDetail"} |-> FALSE]
    /\ lastInsertResult = [c \in {"EnrollmentButton", "CourseDetail"} |-> "none"]

\* checkEnrollment of EnrollmentButton up to its request: nothing without a
\* profile, otherwise the select is sent (part_002 lines 311-320).
eb_startCheck(site, profile) ==
    IF profile = Null THEN eb_check ELSE [eb_check EXCEPT ![site] = "sent"]

\* checkEnrollment of CourseDetail up to its request (CourseDetail.tsx 66-74).
cd_startCheck(site, profile) ==
    IF profile = Null \/ profile[1].role # "student" THEN cd_check
    ELSE [cd_check EXCEPT ![site] = "sent"]

\* The effect of EnrollmentButton on [user, userProfile, courseId]
\* (part_002 lines 302-309), run with the values the step leaves.
eb_effect ==
    IF user' /\ userProfile' # Null
    THEN /\ eb_check' = eb_startCheck("effect", userProfile')
         /\ eb_count' = [eb_count EXCEPT !["effect"] = "sent"]
         /\ UNCHANGED eb_loading
    ELSE /\ eb_loading' = FALSE
         /\ UNCHANGED <<eb_check, eb_count>>

\* The effect of CourseDetail on [course, userProfile] (CourseDetail.tsx 30-34).
cd_effect ==
    IF cd_course' # Null /\ userProfile' # Null /\ ~cd_left
    THEN cd_check' = cd_startCheck("effect", userProfile')
    ELSE UNCHANGED cd_check

\* AuthContext restores the session: signed in or anonymous. With a user the
\* loading flag may stay set until the profile arrives.
AuthSession ==
    /\ authLoading /\ ~user
    /\ \E u \in BOOLEAN, l \in BOOLEAN :
          /\ user' = u
          /\ authLoading' = (u /\ l)
    /\ UNCHANGED <<userProfile, isPublished, enrollments>>
    /\ eb_effect
    /\ UNCHANGED <<eb_enrollment, eb_enrolling, eb_enrollmentCount, eb_insert,
                   eb_toast>>
    /\ UNCHANGED <<cdVars, enrollObs, nonEnrollVars>>

\* AuthContext receives the profile of the signed-in user.
AuthProfile ==
    /\ user /\ userProfile = Null
    /\ \E p \in Profiles : userProfile' = Some(p)
    /\ authLoading' = FALSE
    /\ UNCHANGED <<user, isPublished, enrollments>>
    /\ UNCHANGED <<eb_enrollment, eb_enrolling, eb_enrollmentCount, eb_insert,
                   eb_toast>>
    /\ UNCHANGED <<cd_course, cd_courseLoading, cd_enrollment, cd_enrolling,
                   cd_fetch, cd_insert, cd_toast, cd_left>>
    /\ eb_effect
    /\ cd_effect
    /\ UNCHANGED <<enrollObs, nonEnrollVars>>

\* The enrollments table answers a select for (course, student): the row, no
\* row, or a failure.
SelectAnswers(studentId) ==
    {"null", "error"} \cup
    (IF RowsFor(CourseId, studentId) # <<>> THEN {"row"} ELSE {})

\* The enrollments table takes an insert: a second row for the same (course,
\* student) is refused with the unique-violation code 23505; otherwise the row
\* is stored, or the request fails for another reason.
ServiceInsert(control) ==
    /\ control = "EnrollmentButton" => eb_insert = "sent"
    /\ control = "CourseDetail" => cd_insert = "sent"
    /\ \E answer \in {"ok", "error", "23505"} :
          /\ (answer = "23505") => RowsFor(CourseId, profileId) # <<>>
          /\ (answer = "ok") => RowsFor(CourseId, profileId) = <<>>
          /\ enrollments' = IF answer = "ok"
                            THEN Append(enrollments, EnrollmentRow(profileId))
                            ELSE enrollments
          /\ IF control = "EnrollmentButton"
             THEN eb_insert' = answer /\ UNCHANGED cd_insert
             ELSE cd_insert' = answer /\ UNCHANGED eb_insert
    /\ UNCHANGED <<authLoading, user, userProfile, isPublished>>
    /\ UNCHANGED <<eb_enrollment, eb_loading, eb_enrolling, eb_enrollmentCount,
                   eb_check, eb_count, eb_toast>>
    /\ UNCHANGED <<cd_course, cd_courseLoading, cd_enrollment, cd_enrolling,
                   cd_fetch, cd_check, cd_toast, cd_left>>
    /\ UNCHANGED <<enrollObs, nonEnrollVars>>

ServiceInsertEB == ServiceInsert("EnrollmentButton")
ServiceInsertCD == ServiceInsert("CourseDetail")

\* ---- EnrollmentButton ----

\* EnrollmentButton's render without its teacher branch.
eb_view_noTeacherView ==
    IF eb_loading THEN "loading"
    ELSE IF ~user THEN "signIn"
    ELSE IF eb_enrollment # Null THEN "enrolled"
    ELSE "notEnrolled"

\* The view EnrollmentButton renders (part_002 lines 398-532).
eb_view ==
    IF eb_loading THEN "loading"
    ELSE IF ~user THEN "signIn"
    ELSE IF role = "teacher" THEN "teacher"
    ELSE IF eb_enrollment # Null THEN "enrolled"
    ELSE "notEnrolled"

\* The enroll button is shown and not disabled (part_002 lines 507-510).
eb_canClickEnroll == eb_view = "notEnrolled" /\ ~(eb_enrolling \/ ~isPublished)

\* EnrollmentButton.handleEnroll up to its await (part_002 lines 348-374).
EnrollmentButton_handleEnroll ==
    /\ eb_canClickEnroll
    /\ IF ~user
       THEN /\ eb_toast' = ToastSignIn
            /\ UNCHANGED <<eb_enrolling, eb_insert, insertIssued>>
       ELSE IF userProfile = Null \/ role # "student"
       THEN /\ eb_toast' = ToastOnlyStudents
            /\ UNCHANGED <<eb_enrolling, eb_insert, insertIssued>>
       ELSE IF ~isPublished
       THEN /\ eb_toast' = ToastNotPublished
            /\ UNCHANGED <<eb_enrolling, eb_insert, insertIssued>>
       ELSE /\ eb_enrolling' = TRUE
            /\ eb_insert' = "sent"
            /\ insertIssued' = [insertIssued EXCEPT !["EnrollmentButton"] = TRUE]
            /\ UNCHANGED eb_toast
    /\ UNCHANGED <<eb_enrollment, eb_loading, eb_enrollmentCount, eb_check, eb_count>>
    /\ UNCHANGED <<serviceVars, cdVars, lastInsertResult, nonEnrollVars>>

\* A handleEnroll that sends the insert again when it was refused.
EnrollmentButton_handleEnroll_answer_retry ==
    /\ eb_insert \in {"ok", "error", "23505"}
    /\ IF eb_insert = "ok"
       THEN /\ eb_toast' = ToastEnrolled
            /\ eb_check' = eb_startCheck("afterEnroll", userProfile)
            /\ eb_count' = [eb_count EXCEPT !["afterEnroll"] = "sent"]
            /\ eb_enrolling' = FALSE
            /\ eb_insert' = "idle"
       ELSE /\ eb_insert' = "sent"
            /\ UNCHANGED <<eb_toast, eb_check, eb_count, eb_enrolling>>
    /\ lastInsertResult' = [lastInsertResult EXCEPT !["EnrollmentButton"] = eb_insert]
    /\ UNCHANGED <<eb_enrollment, eb_loading, eb_enrollmentCount>>
    /\ UNCHANGED <<serviceVars, cdVars, insertIssued, nonEnrollVars>>

\* EnrollmentButton.handleEnroll from the answer on (part_002 lines 376-391).
EnrollmentButton_handleEnroll_answer ==
    /\ eb_insert \in {"ok", "error", "23505"}
    /\ IF eb_insert = "ok"
       THEN /\ eb_toast' = ToastEnrolled
            /\ eb_check' = eb_startCheck("afterEnroll", userProfile)
            /\ eb_count' = [eb_count EXCEPT !["afterEnroll"] = "sent"]
       ELSE /\ eb_toast' = IF eb_insert = "23505" THEN ToastAlreadyEnrolled
                           ELSE ToastFailedEnroll
            /\ UNCHANGED <<eb_check, eb_count>>
    /\ eb_enrolling' = FALSE
    /\ lastInsertResult' = [lastInsertResult EXCEPT !["EnrollmentButton"] = eb_insert]
    /\ eb_insert' = "idle"
    /\ UNCHANGED <<eb_enrollment, eb_loading, eb_enrollmentCount>>
    /\ UNCHANGED <<serviceVars, cdVars, insertIssued, nonEnrollVars>>

\* EnrollmentButton.checkEnrollment from the answer on (part_002 lines 322-331).
EnrollmentButton_checkEnrollment_answer ==
    \E site \in CallSites, answer \in SelectAnswers(profileId) :
       /\ eb_check[site] = "sent"
       /\ eb_check' = [eb_check EXCEPT ![site] = "idle"]
       /\ eb_enrollment' = CASE answer = "row" -> Some(RowsFor(CourseId, profileId)[1])
                             [] answer = "null" -> Null
                             [] answer = "error" -> eb_enrollment
       /\ eb_loading' = FALSE
       /\ UNCHANGED <<eb_enrolling, eb_enrollmentCount, eb_count, eb_insert, eb_toast>>
       /\ UNCHANGED <<serviceVars, cdVars, enrollObs, nonEnrollVars>>

\* EnrollmentButton.getEnrollmentCount from the answer on (part_002 lines 341-345).
EnrollmentButton_getEnrollmentCount_answer ==
    \E site \in CallSites, failed \in BOOLEAN :
       /\ eb_count[site] = "sent"
       /\ eb_count' = [eb_count EXCEPT ![site] = "idle"]
       /\ eb_enrollmentCount' = IF failed THEN eb_enrollmentCount
                                ELSE Len(SelectSeq(enrollments,
                                         LAMBDA r : r.course_id = CourseId))
       /\ UNCHANGED <<eb_enrollment, eb_loading, eb_enrolling, eb_check, eb_insert,
                      eb_toast>>
       /\ UNCHANGED <<serviceVars, cdVars, enrollObs, nonEnrollVars>>

\* ---- CourseDetail ----

\* CourseDetail.fetchCourse from the answer on (CourseDetail.tsx lines 46-53):
\* the query selects the course by id alone.
CourseDetail_fetchCourse_answer ==
    /\ cd_fetch = "sent" /\ ~cd_left
    /\ cd_fetch' = "idle"
    /\ UNCHANGED <<serviceVars, ebVars, enrollObs, nonEnrollVars>>
    /\ \E failed \in BOOLEAN :
          IF failed
          THEN /\ cd_toast' = ToastCourseNotFound
               /\ cd_left' = TRUE
               /\ UNCHANGED <<cd_course, cd_courseLoading, cd_check>>
          ELSE /\ cd_course' = Some(CourseRow)
               /\ cd_courseLoading' = FALSE
               /\ UNCHANGED <<cd_toast, cd_left>>
               /\ cd_effect
    /\ UNCHANGED <<cd_enrollment, cd_enrolling, cd_insert>>

cd_isOwner == cd_course # Null /\ userProfile # Null
              /\ userProfile[1].id = cd_course[1].teacher_id

\* What the sidebar of CourseDetail offers (CourseDetail.tsx lines 109-120 and
\* 291-341).
cd_view ==
    IF cd_left THEN "left"
    ELSE IF authLoading \/ cd_courseLoading THEN "loading"
    ELSE IF cd_course = Null THEN "nothing"
    ELSE IF ~user THEN "signUp"
    ELSE IF cd_isOwner THEN "owner"
    ELSE IF role # "student" THEN "switchAccount"
    ELSE IF cd_enrollment # Null THEN "enrolled"
    ELSE "enrollNow"

cd_canClickEnroll == cd_view = "enrollNow" /\ ~cd_enrolling

\* CourseDetail.handleEnroll up to its await (CourseDetail.tsx lines 79-97).
CourseDetail_handleEnroll ==
    /\ cd_canClickEnroll
    /\ IF ~user
       THEN /\ cd_left' = TRUE
            /\ UNCHANGED <<cd_toast, cd_enrolling, cd_insert, insertIssued>>
       ELSE IF userProfile = Null \/ role # "student"
       THEN /\ cd_toast' = ToastOnlyStudents
            /\ UNCHANGED <<cd_left, cd_enrolling, cd_insert, insertIssued>>
       ELSE /\ cd_enrolling' = TRUE
            /\ cd_insert' = "sent"
            /\ insertIssued' = [insertIssued EXCEPT !["CourseDetail"] = TRUE]
            /\ UNCHANGED <<cd_toast, cd_left>>
    /\ UNCHANGED <<cd_course, cd_courseLoading, cd_enrollment, cd_fetch, cd_check>>
    /\ UNCHANGED <<serviceVars, ebVars, lastInsertResult, nonEnrollVars>>

\* CourseDetail.handleEnroll from the answer on (CourseDetail.tsx lines 99-106).
CourseDetail_handleEnroll_answer ==
    /\ cd_insert \in {"ok", "error", "23505"} /\ ~cd_left
    /\ IF cd_insert # "ok"
       THEN /\ cd_toast' = ToastFailedEnroll
            /\ UNCHANGED cd_check
       ELSE /\ cd_toast' = ToastEnrolled
            /\ cd_check' = cd_startCheck("afterEnroll", userProfile)
    /\ cd_enrolling' = FALSE
    /\ lastInsertResult' = [lastInsertResult EXCEPT !["CourseDetail"] = cd_insert]
    /\ cd_insert' = "idle"
    /\ UNCHANGED <<cd_course, cd_courseLoading, cd_enrollment, cd_fetch, cd_left>>
    /\ UNCHANGED <<serviceVars, ebVars, insertIssued, nonEnrollVars>>

\* CourseDetail.checkEnrollment from the answer on (CourseDetail.tsx lines
\* 69-76): single() gives data null when there is no row or the query fails.
CourseDetail_checkEnrollment_answer ==
    \E site \in CallSites, answer \in SelectAnswers(profileId) \ {"error"} :
       /\ cd_check[site] = "sent" /\ ~cd_left
       /\ cd_check' = [cd_check EXCEPT ![site] = "idle"]
       /\ cd_enrollment' = IF answer = "row"
                           THEN Some(RowsFor(CourseId, profileId)[1]) ELSE Null
       /\ UNCHANGED <<cd_course, cd_courseLoading, cd_enrolling, cd_fetch, cd_insert,
                      cd_toast, cd_left>>
       /\ UNCHANGED <<serviceVars, ebVars, enrollObs, nonEnrollVars>>

NextEnroll ==
    \/ AuthSession
    \/ AuthProfile
    \/ ServiceInsertEB
    \/ ServiceInsertCD
    \/ EnrollmentButton_handleEnroll
    \/ EnrollmentButton_handleEnroll_answer
    \/ EnrollmentButton_checkEnrollment_answer
    \/ EnrollmentButton_getEnrollmentCount_answer
    \/ CourseDetail_fetchCourse_answer
    \/ CourseDetail_handleEnroll
    \/ CourseDetail_handleEnroll_answer
    \/ CourseDetail_checkEnrollment_answer

------------------------------------------------------------------------------
(* Claims about the enroll controls *)

Controls == {"EnrollmentButton", "CourseDetail"}

toastOf(control) == IF control = "EnrollmentButton" THEN eb_toast ELSE cd_toast

\* C1: after any enroll attempts for a (course, student) pair there is at most
\* one enrollment row for it, exactly one once an attempt succeeded, and a
\* control whose attempt was refused as a duplicate reports 'already enrolled'.
C1_ExactlyOnce ==
    /\ Len(RowsFor(CourseId, "s1")) <= 1
    /\ \A c \in Controls :
          /\ lastInsertResult[c] = "ok" => Len(RowsFor(CourseId, "s1")) = 1
          /\ lastInsertResult[c] = "23505" => toastOf(c) = ToastAlreadyEnrolled

\* C8: an enrollment insert is sent only by a signed-in student for a published
\* course, through either control.
C8_InsertOnlyWhenGuardsHold ==
    \A c \in Controls :
       insertIssued[c] => (user /\ role = "student" /\ isPublished)

\* The part of C1 that is EnrollmentButton's.
EnrollmentButton_ReportsDuplicate ==
    /\ Len(RowsFor(CourseId, "s1")) <= 1
    /\ lastInsertResult["EnrollmentButton"] = "23505" => eb_toast = ToastAlreadyEnrolled

\* The part of C8 that is EnrollmentButton's, and CourseDetail's without the
\* published guard.
EnrollmentButton_GuardsInsert ==
    /\ insertIssued["EnrollmentButton"] => (user /\ role = "student" /\ isPublished)
    /\ insertIssued["CourseDetail"] => (user /\ role = "student")

\* The insert of a control is awaited by its handleEnroll.
insertInFlight(c) ==
    IF c = "EnrollmentButton" THEN eb_insert # "idle" ELSE cd_insert # "idle"

\* The enroll button of a control can be clicked.
canClickEnroll(c) ==
    IF c = "EnrollmentButton" THEN eb_canClickEnroll ELSE cd_canClickEnroll

\* The step sends an insert of the control.
sendsInsert(c) ==
    IF c = "EnrollmentButton" THEN eb_insert = "idle" /\ eb_insert' = "sent"
    ELSE cd_insert = "idle" /\ cd_insert' = "sent"

\* C25: a mounted enroll control never issues a second enrollment insert once
\* one was issued and has not failed: its button cannot be clicked while an
\* insert is in flight, and after a successful insert it cannot be clicked
\* again at any point, the interval before the refreshed enrollment arrives
\* included.
C25_NoSecondInsert ==
    /\ [](\A c \in Controls :
             (insertInFlight(c) \/ lastInsertResult[c] = "ok")
                 => ~canClickEnroll(c))
    /\ [][\A c \in Controls :
             sendsInsert(c) => lastInsertResult[c] # "ok"]_vars

\* The part of C25 about the insert in flight: until handleEnroll has taken
\* the answer the button of the control cannot be clicked and no insert is
\* sent.
C25_DisabledInFlight ==
    /\ [](\A c \in Controls : insertInFlight(c) => ~canClickEnroll(c))
    /\ [][\A c \in Controls : insertInFlight(c) => ~sendsInsert(c)]_vars

\* The enroll button was clicked again after a successful insert and a second
\* insert is on its way.
C25_SecondInsertSent ==
    \E c \in Controls :
        /\ lastInsertResult[c] = "ok"
        /\ IF c = "EnrollmentButton" THEN eb_insert = "sent" ELSE cd_insert = "sent"

\* The viewer is signed in with the profile of the teacher who owns the course.
isOwningTeacher ==
    /\ user
    /\ userProfile = Some([id |-> OwnerId, role |-> "teacher"])

------------------------------------------------------------------------------
(* The upload trackers: FileUploader and LessonUploader *)

\* The number of files handed to the two uploaders together.
MaxFiles == 2

MB == 1024 * 1024

\* FileUploader prop maxSize (in MB), at its default.
maxSize == 100

\* LessonUploader prop maxFileSize (in MB), at its default.
maxFileSize == 100

\* FileUploader prop accept at its default '*/*', and as '.pdf, video/mp4'.
AcceptAny == <<"*","/","*">>
AcceptList == <<".","p","d","f",","," ","v","i","d","e","o","/","m","p","4">>

\* LessonUploader prop acceptedTypes, at its default.
acceptedTypes ==
    << <<".","m","p","4">>, <<".","w","e","b","m">>, <<".","o","g","g">>,
       <<".","p","d","f">>, <<".","d","o","c">>, <<".","d","o","c","x">> >>

VideoMp4 == <<"v","i","d","e","o","/","m","p","4">>
TextPlain == <<"t","e","x","t","/","p","l","a","i","n">>

\* The File objects a user hands over (name, type, size in bytes):
\*   1  'A.MP4'  video/mp4   exactly 100MB
\*   2  'b.mp4'  video/mp4   150MB
\*   3  'c.txt'  text/plain  1 byte
\*   4  'pdf'    ''          1 byte (a name without a dot)
Files ==
    << [name |-> <<"A",".","M","P","4">>, type |-> VideoMp4, size |-> 100 * MB],
       [name |-> <<"b",".","m","p","4">>, type |-> VideoMp4, size |-> 150 * MB],
       [name |-> <<"c",".","t","x","t">>, type |-> TextPlain, size |-> 1],
       [name |-> <<"p","d","f">>, type |-> <<>>, size |-> 1] >>

\* The FileLists of at most n files.
FileLists(n) == UNION { [1..k -> DOMAIN Files] : k \in 1..n }

FU_TooLarge == "File size exceeds 100MB limit"
FU_NotSupported == "File type not supported. Accepted types: .pdf, video/mp4"
FU_UploadFailed == "Upload failed"
LU_TooLarge == "File is too large. Maximum size is 100MB"
LU_NotSupported == "File type is not supported"

\* The answers of supabase.storage upload: no error, or an error with its
\* message (which may be empty).
StorageAnswers == {Null, Some(""), Some("Bucket not found")}

\* urlData.publicUrl of the path the file f was uploaded to.
publicUrl(f) == <<"public", f>>

\* URL.createObjectURL(file) of the file f.
createObjectURL(f) == <<"blob", f>>

\* An entry of selected: the file (an index of Files), the uploader it was
\* handed to, the toast.error text it was refused with (or Null), whether its
\* transfer was begun, and how the transfer ended.
Selection(choice, by, rejection, transfer) ==
    [file |-> choice, by |-> by, rejection |-> rejection,
     transfer |-> transfer, result |-> "none"]

\* A call of the completion callback for the file f: onUploadComplete(url,
\* file.name) of FileUploader, onFileUploaded(url, fileType) of LessonUploader.
invokeCallback_twice(calls, f, url, with) ==
    Append(Append(calls, [file |-> f, url |-> url, with |-> with]),
           [file |-> f, url |-> url, with |-> with])

invokeCallback(calls, f, url, with) ==
    Append(calls, [file |-> f, url |-> url, with |-> with])

UploadIdle ==
    /\ accept = AcceptAny
    /\ uploadingFiles = <<>>
    /\ fu_transfers = {}
    /\ uploads = <<>>
    /\ lu_tasks = {}
    /\ objectUrls = {}
    /\ selected = <<>>
    /\ completeCalls = <<>>
    /\ errorCalls = <<>>

UploadInit ==
    /\ accept \in {AcceptAny, AcceptList}
    /\ uploadingFiles = <<>>
    /\ fu_transfers = {}
    /\ uploads = <<>>
    /\ lu_tasks = {}
    /\ objectUrls = {}
    /\ selected = <<>>
    /\ completeCalls = <<>>
    /\ errorCalls = <<>>

\* ---- FileUploader ----

\* '.' + file.name.split('.').pop()?.toLowerCase()
fileExtension(file) == <<".">> \o toLowerCase(pop(split(file.name, ".")))

\* accept.split(',').map(type => type.trim())
FU_acceptedTypes ==
    LET parts == split(accept, ",") IN [i \in 1..Len(parts) |-> trim(parts[i])]

FU_sizeExceeds(file) == file.size > maxSize * MB

\* FileUploader.validateFile: Null, or the message.
validateFile(file) ==
    IF FU_sizeExceeds(file) THEN Some(FU_TooLarge)
    ELSE IF accept # AcceptAny
            /\ ~\E i \in DOMAIN FU_acceptedTypes :
                   \/ FU_acceptedTypes[i] = file.type
                   \/ FU_acceptedTypes[i] = fileExtension(file)
                   \/ FU_acceptedTypes[i] = AcceptAny
         THEN Some(FU_NotSupported)
         ELSE Null

\* FileUploader.uploadFile up to its await, on the state st (uploadingFiles,
\* fu_transfers, selected, errorCalls); the file becomes Len(selected) + 1.
uploadFile(st, choice) ==
    LET f == Len(st.selected) + 1
        validation == validateFile(Files[choice])
    IN  IF validation # Null
        THEN [st EXCEPT
                !.selected = Append(@, Selection(choice, "FileUploader", validation, FALSE)),
                !.errorCalls = Append(@, [file |-> f, error |-> validation[1]])]
        ELSE [st EXCEPT
                !.selected = Append(@, Selection(choice, "FileUploader", Null, TRUE)),
                !.uploadingFiles =
                    Append(@, [file |-> f, progress |-> 0, status |-> "uploading",
                               url |-> Null, error |-> Null]),
                !.fu_transfers = @ \cup {f}]

\* Array.from(files).forEach(uploadFile)
RECURSIVE forEach_uploadFile(_, _)
forEach_uploadFile(st, files) ==
    IF files = <<>> THEN st
    ELSE forEach_uploadFile(uploadFile(st, Head(files)), Tail(files))

FileUploader_handleFileSelect ==
    /\ Len(selected) < MaxFiles
    /\ \E files \in FileLists(MaxFiles - Len(selected)) :
          LET st == forEach_uploadFile(
                        [uploadingFiles |-> uploadingFiles,
                         fu_transfers |-> fu_transfers,
                         selected |-> selected,
                         errorCalls |-> errorCalls], files)
          IN  /\ uploadingFiles' = st.uploadingFiles
              /\ fu_transfers' = st.fu_transfers
              /\ selected' = st.selected
              /\ errorCalls' = st.errorCalls
    /\ UNCHANGED <<accept, luVars, completeCalls, nonUploadVars>>

\* error.message || 'Upload failed'
errorMessage(message) == IF message = "" THEN FU_UploadFailed ELSE message

\* FileUploader.uploadFile after its await: the storage service answers.
FileUploader_uploadFile_answer ==
    \E f \in fu_transfers, answer \in StorageAnswers :
        /\ fu_transfers' = fu_transfers \ {f}
        /\ \/ /\ answer = Null
              /\ uploadingFiles' =
                    [i \in DOMAIN uploadingFiles |->
                        IF uploadingFiles[i].file = f
                        THEN [uploadingFiles[i] EXCEPT
                                !.status = "completed",
                                !.url = Some(publicUrl(f)),
                                !.progress = 100]
                        ELSE uploadingFiles[i]]
              /\ completeCalls' =
                    invokeCallback(completeCalls, f, publicUrl(f),
                                   Files[selected[f].file].name)
              /\ selected' = [selected EXCEPT ![f].result = "ok"]
              /\ UNCHANGED errorCalls
           \/ /\ answer # Null
              /\ uploadingFiles' =
                    [i \in DOMAIN uploadingFiles |->
                        IF uploadingFiles[i].file = f
                        THEN [uploadingFiles[i] EXCEPT
                                !.status = "error",
                                !.error = Some(errorMessage(answer[1])),
                                !.progress = 0]
                        ELSE uploadingFiles[i]]
              /\ errorCalls' =
                    Append(errorCalls,
                           [file |-> f, error |-> errorMessage(answer[1])])
              /\ selected' = [selected EXCEPT ![f].result = "failed"]
              /\ UNCHANGED completeCalls
        /\ UNCHANGED <<accept, luVars, nonUploadVars>>

\* A removal that empties the tracker: setUploadingFiles([]).
FileUploader_removeFile_all ==
    /\ uploadingFiles # <<>>
    /\ uploadingFiles' = <<>>
    /\ UNCHANGED <<accept, fu_transfers, luVars, uploadObs, nonUploadVars>>

\* FileUploader.removeFile: the X button of the record of a file.
FileUploader_removeFile ==
    \E i \in DOMAIN uploadingFiles :
        /\ uploadingFiles' =
              SelectSeq(uploadingFiles,
                        LAMBDA r : r.file # uploadingFiles[i].file)
        /\ UNCHANGED <<accept, fu_transfers, luVars, uploadObs, nonUploadVars>>

\* ---- LessonUploader ----

LU_sizeExceeds(file) == file.size > maxFileSize * MB

\* acceptedTypes.includes(fileExtension)
LU_typeAccepted(file) ==
    \E i \in DOMAIN acceptedTypes : acceptedTypes[i] = fileExtension(file)

\* The body of files.forEach in LessonUploader.handleFileSelect, with
\* simulateUpload up to its first await, on the state st (uploads, lu_tasks,
\* selected); the file, and its uploadId, become Len(selected) + 1.
selectFile(st, choice) ==
    LET uploadId == Len(st.selected) + 1
        file == Files[choice]
    IN  IF LU_sizeExceeds(file)
        THEN [st EXCEPT
                !.selected = Append(@, Selection(choice, "LessonUploader",
                                                 Some(LU_TooLarge), FALSE))]
        ELSE IF ~LU_typeAccepted(file)
        THEN [st EXCEPT
                !.selected = Append(@, Selection(choice, "LessonUploader",
                                                 Some(LU_NotSupported), FALSE))]
        ELSE [st EXCEPT
                !.selected = Append(@, Selection(choice, "LessonUploader", Null, TRUE)),
                !.uploads =
                    Append(@, [id |-> uploadId, file |-> uploadId, progress |-> 0,
                               status |-> "uploading", url |-> Null]),
                !.lu_tasks = @ \cup {[id |-> uploadId, progress |-> 0]}]

RECURSIVE forEach_selectFile(_, _)
forEach_selectFile(st, files) ==
    IF files = <<>> THEN st
    ELSE forEach_selectFile(selectFile(st, Head(files)), Tail(files))

LessonUploader_handleFileSelect ==
    /\ Len(selected) < MaxFiles
    /\ \E files \in FileLists(MaxFiles - Len(selected)) :
          LET st == forEach_selectFile(
                        [uploads |-> uploads, lu_tasks |-> lu_tasks,
                         selected |-> selected], files)
          IN  /\ uploads' = st.uploads
              /\ lu_tasks' = st.lu_tasks
              /\ selected' = st.selected
    /\ UNCHANGED <<objectUrls, fuVars, completeCalls, errorCalls, nonUploadVars>>

\* prev.map(upload => upload.id === uploadId ? change(upload) : upload)
setProgress(list, uploadId, progress) ==
    [i \in DOMAIN list |->
        IF list[i].id = uploadId THEN [list[i] EXCEPT !.progress = progress]
        ELSE list[i]]

\* file.type.startsWith('video/') ? 'video' : 'document'
fileType(file) ==
    IF startsWith(file.type, <<"v","i","d","e","o","/">>) THEN "video"
    ELSE "document"

\* One turn of the loop of simulateUpload below 100: the timer fires and the
\* progress is stored.
LessonUploader_simulateUpload_progress ==
    \E task \in lu_tasks :
        /\ task.progress < 100
        /\ uploads' = setProgress(uploads, task.id, task.progress)
        /\ lu_tasks' = (lu_tasks \ {task})
                          \cup {[id |-> task.id, progress |-> task.progress + 10]}
        /\ UNCHANGED <<objectUrls, fuVars, uploadObs, nonUploadVars>>

\* The last turn of the loop and the rest of simulateUpload: the object URL is
\* created, the record completed and onFileUploaded called; or the try block
\* throws at URL.createObjectURL and the catch marks the record.
LessonUploader_simulateUpload_finish ==
    \E task \in lu_tasks :
        /\ task.progress = 100
        /\ lu_tasks' = lu_tasks \ {task}
        /\ \/ /\ objectUrls' = objectUrls \cup {createObjectURL(task.id)}
              /\ uploads' =
                    [i \in DOMAIN uploads |->
                        IF uploads[i].id = task.id
                        THEN [uploads[i] EXCEPT
                                !.progress = 100,
                                !.status = "completed",
                                !.url = Some(createObjectURL(task.id))]
                        ELSE uploads[i]]
              /\ completeCalls' =
                    invokeCallback(completeCalls, task.id,
                                   createObjectURL(task.id),
                                   fileType(Files[selected[task.id].file]))
              /\ selected' = [selected EXCEPT ![task.id].result = "ok"]
           \/ /\ uploads' =
                    [i \in DOMAIN uploads |->
                        IF uploads[i].id = task.id
                        THEN [uploads[i] EXCEPT
                                !.progress = 100, !.status = "error"]
                        ELSE uploads[i]]
              /\ selected' = [selected EXCEPT ![task.id].result = "failed"]
              /\ UNCHANGED <<objectUrls, completeCalls>>
        /\ UNCHANGED <<errorCalls, fuVars, nonUploadVars>>

LessonUploader_removeUpload ==
    \E i \in DOMAIN uploads :
        LET upload == uploads[i] IN
        /\ objectUrls' = IF upload.url # Null THEN objectUrls \ {upload.url[1]}
                         ELSE objectUrls
        /\ uploads' = SelectSeq(uploads, LAMBDA u : u.id # upload.id)
        /\ UNCHANGED <<lu_tasks, fuVars, uploadObs, nonUploadVars>>

NextUpload ==
    \/ FileUploader_handleFileSelect
    \/ FileUploader_uploadFile_answer
    \/ FileUploader_removeFile
    \/ LessonUploader_handleFileSelect
    \/ LessonUploader_simulateUpload_progress
    \/ LessonUploader_simulateUpload_finish
    \/ LessonUploader_removeUpload

------------------------------------------------------------------------------
(* Claims about the upload trackers *)

\* The records of both trackers; a LessonUploader record has no field for a
\* reason.
tracked ==
    { [by |-> "FileUploader", file |-> r.file, status |-> r.status,
       url |-> r.url, reason |-> r.error] : r \in Range(uploadingFiles) }
    \cup
    { [by |-> "LessonUploader", file |-> r.file, status |-> r.status,
       url |-> r.url, reason |-> Null] : r \in Range(uploads) }

statusOfFile(f) ==
    IF \E r \in tracked : r.file = f
    THEN (CHOOSE r \in tracked : r.file = f).status
    ELSE "absent"

\* The extension of a file name: the part after its last dot, case ignored;
\* a name without a dot has none.
extensionOf(name) ==
    IF \E i \in DOMAIN name : name[i] = "."
    THEN Some(<<".">> \o toLowerCase(pop(split(name, "."))))
    ELSE Null

\* The configured accepted set and maximum of the uploader a file went to.
acceptedSetOf(by) ==
    IF by = "FileUploader" THEN Range(FU_acceptedTypes) ELSE Range(acceptedTypes)

maxBytesOf(by) ==
    IF by = "FileUploader" THEN maxSize * MB ELSE maxFileSize * MB

typeInAcceptedSet(s) ==
    LET file == Files[s.file]
        ext == extensionOf(file.name)
    IN  \/ AcceptAny \in acceptedSetOf(s.by)
        \/ file.type \in acceptedSetOf(s.by)
        \/ ext # Null /\ ext[1] \in acceptedSetOf(s.by)

rejectedBeforeTransfer(f) ==
    /\ selected[f].rejection # Null
    /\ selected[f].rejection[1] # ""
    /\ ~selected[f].transfer
    /\ statusOfFile(f) = "absent"
    /\ f \notin fu_transfers
    /\ \A task \in lu_tasks : task.id # f

acceptedForTransfer(f) ==
    selected[f].rejection = Null /\ selected[f].transfer

\* C5: a file larger than the configured maximum, or whose extension and MIME
\* type are both outside the configured accepted set, is refused with a reason,
\* gets no upload record and no transfer; a file of exactly the maximum size
\* with an accepted type is accepted. For FileUploader and LessonUploader.
C5_RejectedBeforeTransfer ==
    \A f \in DOMAIN selected :
        LET s == selected[f]
            file == Files[s.file]
        IN  /\ (file.size > maxBytesOf(s.by) \/ ~typeInAcceptedSet(s))
                  => rejectedBeforeTransfer(f)
            /\ (file.size = maxBytesOf(s.by) /\ typeInAcceptedSet(s))
                  => acceptedForTransfer(f)

\* C5 for the files whose name has a dot.
C5_ForNamesWithDot ==
    \A f \in DOMAIN selected :
        LET s == selected[f]
            file == Files[s.file]
        IN  extensionOf(file.name) # Null =>
            /\ (file.size > maxBytesOf(s.by) \/ ~typeInAcceptedSet(s))
                  => rejectedBeforeTransfer(f)
            /\ (file.size <= maxBytesOf(s.by) /\ typeInAcceptedSet(s))
                  => acceptedForTransfer(f)

\* A name without a dot was accepted and its transfer begun.
C5_DotlessAccepted ==
    \E f \in DOMAIN selected :
        /\ extensionOf(Files[selected[f].file].name) = Null
        /\ ~typeInAcceptedSet(selected[f])
        /\ acceptedForTransfer(f)

recordWellFormed(r) ==
    /\ r.status \in {"uploading", "completed", "error"}
    /\ r.status = "completed" => r.url # Null
    /\ r.status = "error" => (r.reason # Null /\ r.reason[1] # "")

statusMoves(f) ==
    /\ (f \notin DOMAIN selected /\ f \in DOMAIN selected'
        /\ selected'[f].rejection = Null)
          => statusOfFile(f)' = "uploading"
    /\ (statusOfFile(f) = "absent" /\ statusOfFile(f)' # "absent")
          => statusOfFile(f)' = "uploading"
    /\ statusOfFile(f) \in {"completed", "error"}
          => statusOfFile(f)' \in {statusOfFile(f), "absent"}

\* C9: an accepted upload is recorded as 'uploading' and then moves to
\* 'completed' with its URL on the record or to 'error' with a reason on the
\* record, and a 'completed' or 'error' record never changes status again.
C9_StatusLifecycle ==
    /\ [](\A r \in tracked : recordWellFormed(r))
    /\ [][\A f \in 1..(MaxFiles + 1) : statusMoves(f)]_vars

\* C9 without the reason on a LessonUploader record.
C9_ExceptLessonUploaderReason ==
    /\ [](\A r \in tracked :
             r.by = "FileUploader" \/ r.status # "error" => recordWellFormed(r))
    /\ [][\A f \in 1..(MaxFiles + 1) : statusMoves(f)]_vars

callsFor(f) == SelectSeq(completeCalls, LAMBDA c : c.file = f)

recordsOf(f) ==
    << SelectSeq(uploadingFiles, LAMBDA r : r.file = f),
       SelectSeq(uploads, LAMBDA r : r.file = f) >>

\* In this step the upload of f completed, failed, or was removed.
endedOrRemoved(f) ==
    \/ statusOfFile(f) = "uploading" /\ statusOfFile(f)' \in {"completed", "error"}
    \/ statusOfFile(f) # "absent" /\ statusOfFile(f)' = "absent"
    \/ selected[f].result = "none" /\ selected'[f].result # "none"

\* The other tracked uploads keep their records, in the same order.
othersUnchanged(f) ==
    /\ \A g \in DOMAIN selected : g # f => recordsOf(g)' = recordsOf(g)
    /\ SelectSeq(uploadingFiles, LAMBDA r : r.file # f)
          = SelectSeq(uploadingFiles', LAMBDA r : r.file # f)
    /\ SelectSeq(uploads, LAMBDA r : r.file # f)
          = SelectSeq(uploads', LAMBDA r : r.file # f)

\* The upload of g has ended and its record, if still tracked, is terminal.
terminal(g) ==
    /\ g \in DOMAIN selected
    /\ selected[g].result # "none"
    /\ statusOfFile(g) \in {"completed", "error", "absent"}

\* C11: the completion, failure or removal of one upload changes only that
\* upload's record: status, progress, URL and error of every other tracked
\* upload are unchanged by the step; and every accepted upload still reaches
\* its own terminal status, whatever happens to the others.
C11_UploadsIndependent ==
    /\ [][\A f \in DOMAIN selected : endedOrRemoved(f) => othersUnchanged(f)]_vars
    /\ \A g \in 1..(MaxFiles + 1) :
          (g \in DOMAIN selected /\ acceptedForTransfer(g)) ~> terminal(g)

\* Two uploads ran concurrently in one uploader; one failed or was removed
\* while the other was uploading, and the other has since completed.
C11_Witness ==
    \E f, g \in DOMAIN selected :
        /\ f # g
        /\ selected[f].by = selected[g].by
        /\ acceptedForTransfer(f) /\ acceptedForTransfer(g)
        /\ selected[f].result = "failed" \/ statusOfFile(f) = "absent"
        /\ selected[g].result = "ok"
        /\ statusOfFile(g) = "completed"

\* C12: every object URL created for an upload that has been removed from the
\* tracker is revoked, whatever state the upload was in when it was removed:
\* no live object URL belongs to an upload the tracker no longer holds.
C12_RemovedUploadsRevoked ==
    \A f \in DOMAIN selected :
        (selected[f].by = "LessonUploader" /\ acceptedForTransfer(f)
         /\ statusOfFile(f) = "absent")
            => createObjectURL(f) \notin objectUrls

\* C12 for the uploads removed after they completed: the removal of a record
\* that carries a URL revokes that URL.
C12_RevokedWhenRemovedCompleted ==
    [][\A f \in DOMAIN selected :
          (statusOfFile(f) = "completed" /\ statusOfFile(f)' = "absent"
           /\ selected[f].by = "LessonUploader")
             => createObjectURL(f) \notin objectUrls']_vars

------------------------------------------------------------------------------
(* The authoring forms: LessonManagement and the QuizManager it embeds *)

\* The largest number of questions of a quiz draft.
MaxQuestions == 1

\* The number of create-or-update requests sent to each table.
MaxRequests == 1

Tables == {"lessons", "quizzes"}

\* What a user types: a lesson title, content and video URL, a quiz title, a
\* question prompt and an answer option.
TitleChoices == {"", "T"}
ContentChoices == {"", "c"}
VideoUrlChoices == {"", "https://v"}
DurationChoices == {"", "15"}
QuizTitleChoices == {"", "Q"}
PromptChoices == {<<>>, <<" ">>, <<"a">>}
OptionChoices == {<<>>, <<"b">>}

LessonTypes == {"video", "text", "quiz"}

\* lessonId of a lesson not saved yet.
NewLesson == <<"new-lesson">>

\* The lesson and the quiz the tables may hold at the start.
StoredLesson ==
    [id |-> <<"l", 1>>, title |-> "T", type |-> "text", content |-> Some("c"),
     video_url |-> Null, duration_minutes |-> Null, order_index |-> 0]

StoredQuiz ==
    [id |-> <<"q", 1>>, lesson_id |-> <<"l", 1>>, title |-> "Q",
     questions |-> << [question |-> <<"a">>,
                       options |-> << <<"b">>, <<"b">>, <<"b">>, <<"b">> >>,
                       correctAnswer |-> 0] >>]

ToastAddQuestion == "Please add at least one question"
ToastFillFields == "Please fill in all question fields"
\* The message a browser shows at a required input left empty.
NativeRequired == "Please fill out this field."
ServiceError == "service error"
ToastLessonUpdated == "Lesson updated successfully!"
ToastLessonCreated == "Lesson created successfully!"
ToastQuizUpdated == "Quiz updated successfully"
ToastQuizCreated == "Quiz created successfully"
ToastQuizFailed == "Failed to save quiz"
ToastLessonDeleted == "Lesson deleted successfully"
ToastLessonDeleteFailed == "Failed to delete lesson"
ToastQuizDeleted == "Quiz deleted successfully"
ToastQuizDeleteFailed == "Failed to delete quiz"

orEmpty(opt) == IF opt = Null THEN "" ELSE opt[1]

\* parseInt(text) || null on the texts of DurationChoices.
parseIntOrNull(text) == IF text = "15" THEN Some(15) ELSE Null

\* The text an input shows for a number given as its defaultValue.
numberText(opt) == IF opt = Some(15) THEN "15" ELSE ""

\* The values the inputs of the lesson form mount with: defaultValue of the
\* inputs rendered for the lesson type, '' standing for an input not rendered.
mountDom(editing, type) ==
    [title |-> IF editing = Null THEN "" ELSE editing[1].title,
     content |->
        IF type \in {"text", "video"} /\ editing # Null
           /\ editing[1].type \in {"text", "video"}
        THEN orEmpty(editing[1].content) ELSE "",
     video_url |->
        IF type = "video" /\ editing # Null /\ editing[1].type = "video"
        THEN orEmpty(editing[1].video_url) ELSE "",
     duration_minutes |->
        IF type = "video" /\ editing # Null /\ editing[1].type = "video"
        THEN numberText(editing[1].duration_minutes) ELSE ""]

NoDom == [title |-> "", content |-> "", video_url |-> "", duration_minutes |-> ""]

NoSubmit == [form |-> "none", message |-> ""]

\* An answer of the data service to the n-th create-or-update request of a
\* table, as the handler that awaited it took it: with an error or not, and the
\* toast the handler showed for it ('' if none).
answered(r, error, toast) ==
    [table |-> r.table, n |-> r.n, error |-> error, toast |-> toast]

NoAnswer == [table |-> "none", n |-> 0, error |-> FALSE, toast |-> ""]

QuizManagerUnmounted ==
    /\ qm_quizzes = <<>>
    /\ qm_loading = TRUE
    /\ qm_dialogOpen = FALSE
    /\ qm_editingQuiz = Null
    /\ qm_title = ""
    /\ qm_questions = <<>>
    /\ qm_fetchQuizzes = FALSE

AuthorIdle ==
    /\ lessonRows = <<>>
    /\ quizRows = <<>>
    /\ lm_lessons = <<>>
    /\ lm_isDialogOpen = FALSE
    /\ lm_editingLesson = Null
    /\ lm_submitting = FALSE
    /\ lm_error = Null
    /\ lm_lessonType = "video"
    /\ lm_fetchLessons = FALSE
    /\ dom = NoDom
    /\ QuizManagerUnmounted
    /\ pending = {}
    /\ sentCount = [t \in Tables |-> 0]
    /\ lastSubmit = NoSubmit
    /\ lastAnswer = NoAnswer

\* The page after its first fetchLessons answered.
AuthorInit ==
    /\ lessonRows \in {<<>>, <<StoredLesson>>}
    /\ quizRows = IF lessonRows = <<>> THEN <<>> ELSE <<StoredQuiz>>
    /\ lm_lessons = lessonRows
    /\ lm_isDialogOpen = FALSE
    /\ lm_editingLesson = Null
    /\ lm_submitting = FALSE
    /\ lm_error = Null
    /\ lm_lessonType = "video"
    /\ lm_fetchLessons = FALSE
    /\ dom = NoDom
    /\ QuizManagerUnmounted
    /\ pending = {}
    /\ sentCount = [t \in Tables |-> 0]
    /\ lastSubmit = NoSubmit
    /\ lastAnswer = NoAnswer

\* ---- the QuizManager inside the lesson form ----

\* {lessonType === 'quiz' && <QuizManager .../>} inside the Dialog.
QuizManager_mounted(open, type) == open /\ type = "quiz"

\* lessonId={editingLesson?.id || 'new-lesson'}
lessonIdOf(editing) == IF editing = Null THEN NewLesson ELSE editing[1].id

\* What rendering LessonManagement with the dialog open or not, the lesson
\* type and the lesson edited does to the QuizManager: it unmounts (its state is
\* lost), mounts (with its first fetchQuizzes), fetches again for another
\* lessonId, or stays.
QuizManager_render(open, type, editing) ==
    IF ~QuizManager_mounted(open, type)
    THEN /\ qm_quizzes' = <<>>
         /\ qm_loading' = TRUE
         /\ qm_dialogOpen' = FALSE
         /\ qm_editingQuiz' = Null
         /\ qm_title' = ""
         /\ qm_questions' = <<>>
         /\ qm_fetchQuizzes' = FALSE
    ELSE IF ~QuizManager_mounted(lm_isDialogOpen, lm_lessonType)
    THEN /\ qm_quizzes' = <<>>
         /\ qm_loading' = TRUE
         /\ qm_dialogOpen' = FALSE
         /\ qm_editingQuiz' = Null
         /\ qm_title' = ""
         /\ qm_questions' = <<>>
         /\ qm_fetchQuizzes' = TRUE
    ELSE /\ qm_fetchQuizzes' =
               (qm_fetchQuizzes \/ lessonIdOf(editing) # lessonIdOf(lm_editingLesson))
         /\ UNCHANGED <<qm_quizzes, qm_loading, qm_dialogOpen, qm_editingQuiz,
                        qm_title, qm_questions>>

\* The requests of a QuizManager that unmounts are answered to no component.
orphaned(reqs, open, type) ==
    IF QuizManager_mounted(open, type) THEN reqs
    ELSE { IF r.table = "quizzes" THEN [r EXCEPT !.orphan = TRUE] ELSE r :
           r \in reqs }

\* ---- LessonManagement ----

\* The lesson form passes the browser's validation: the title input is
\* required, the content textarea is required when the lesson type is 'text'.
lessonFormValid ==
    /\ dom.title # ""
    /\ lm_lessonType = "text" => dom.content # ""

\* lessonData of LessonManagement.handleSubmit, read from the form.
lessonData ==
    [title |-> dom.title,
     type |-> lm_lessonType,
     order_index |-> IF lm_editingLesson # Null
                     THEN lm_editingLesson[1].order_index
                     ELSE Len(lm_lessons),
     video_url |-> IF lm_lessonType = "video" THEN Some(dom.video_url) ELSE Null,
     duration_minutes |-> IF lm_lessonType = "video"
                          THEN parseIntOrNull(dom.duration_minutes) ELSE Null,
     content |-> IF lm_lessonType = "quiz" THEN Null ELSE Some(dom.content)]

\* The update or insert LessonManagement.handleSubmit sends, as the n-th
\* request; via names the form whose submit event called the handler.
lessonRequest(n, via) ==
    [n |-> n, table |-> "lessons",
     op |-> IF lm_editingLesson # Null THEN "update" ELSE "insert",
     id |-> IF lm_editingLesson # Null THEN lm_editingLesson[1].id ELSE Null,
     data |-> lessonData, via |-> via, orphan |-> FALSE]

\* LessonManagement.handleSubmit up to its await, reqs being the requests
\* awaited when it is called.
LessonManagement_handleSubmit(reqs, via) ==
    /\ sentCount["lessons"] < MaxRequests
    /\ lm_submitting' = TRUE
    /\ lm_error' = Null
    /\ pending' = reqs \cup {lessonRequest(sentCount["lessons"] + 1, via)}

\* A submit event on a form and the validation message it ended with, '' if
\* none.
submitEvent(form, message) == [form |-> form, message |-> message]

\* A click on the submit button of the lesson form: the browser validates the
\* form and, if it is valid, fires the submit event.
LessonForm_submit ==
    /\ lm_isDialogOpen
    /\ ~qm_dialogOpen
    /\ ~lm_submitting
    /\ IF lessonFormValid
       THEN /\ LessonManagement_handleSubmit(pending, "lesson form")
            /\ sentCount' = [sentCount EXCEPT !["lessons"] = @ + 1]
            /\ lastSubmit' = submitEvent("lesson", "")
       ELSE /\ lastSubmit' = submitEvent("lesson", NativeRequired)
            /\ UNCHANGED <<lm_submitting, lm_error, pending, sentCount>>
    /\ UNCHANGED <<tableVars, lm_lessons, lm_isDialogOpen, lm_editingLesson,
                   lm_lessonType, lm_fetchLessons, dom, qmVars, lastAnswer,
                   nonAuthorVars>>

lessonRow(id, data) ==
    [id |-> id, title |-> data.title, type |-> data.type,
     content |-> data.content, video_url |-> data.video_url,
     duration_minutes |-> data.duration_minutes,
     order_index |-> data.order_index]

\* The lessons table after the request r was carried out; the table gives an
\* inserted row an id no other row has or had.
lessonsAfter(r) ==
    IF r.op = "insert"
    THEN Append(lessonRows, lessonRow(<<"n", r.n>>, r.data))
    ELSE [i \in DOMAIN lessonRows |->
            IF lessonRows[i].id = r.id THEN lessonRow(r.id, r.data)
            ELSE lessonRows[i]]

\* LessonManagement.handleSubmit after its await.
LessonManagement_handleSubmit_answer ==
    \E r \in pending :
        /\ r.table = "lessons" /\ r.op # "delete"
        /\ \/ /\ lessonRows' = lessonsAfter(r)
              /\ lm_isDialogOpen' = FALSE
              /\ lm_editingLesson' = Null
              /\ lm_lessonType' = "video"
              /\ lm_fetchLessons' = TRUE
              /\ lm_submitting' = FALSE
              /\ dom' = NoDom
              /\ pending' = orphaned(pending \ {r}, FALSE, "video")
              /\ QuizManager_render(FALSE, "video", Null)
              /\ lastAnswer' = answered(r, FALSE, IF r.op = "update"
                                                  THEN ToastLessonUpdated
                                                  ELSE ToastLessonCreated)
              /\ UNCHANGED <<lm_error, lm_lessons>>
           \/ /\ lm_error' = Some(ServiceError)
              /\ lm_submitting' = FALSE
              /\ pending' = pending \ {r}
              /\ lastAnswer' = answered(r, TRUE, "")
              /\ UNCHANGED <<lessonRows, lm_isDialogOpen,
                             lm_editingLesson, lm_lessonType, lm_fetchLessons,
                             dom, lm_lessons, qmVars>>
        /\ UNCHANGED <<quizRows, sentCount, lastSubmit, nonAuthorVars>>

LessonManagement_fetchLessons_answer ==
    /\ lm_fetchLessons
    /\ lm_fetchLessons' = FALSE
    /\ lm_lessons' = lessonRows
    /\ UNCHANGED <<tableVars, lm_isDialogOpen, lm_editingLesson, lm_submitting,
                   lm_error, lm_lessonType, dom, qmVars, authorObs,
                   nonAuthorVars>>

\* The 'Add Lesson' button, the trigger of the Dialog.
LessonManagement_addLesson ==
    /\ ~lm_isDialogOpen
    /\ lm_isDialogOpen' = TRUE
    /\ lm_editingLesson' = Null
    /\ lm_lessonType' = "video"
    /\ dom' = mountDom(Null, "video")
    /\ pending' = orphaned(pending, TRUE, "video")
    /\ QuizManager_render(TRUE, "video", Null)
    /\ UNCHANGED <<tableVars, lm_lessons, lm_submitting, lm_error,
                   lm_fetchLessons, sentCount, lastSubmit, lastAnswer,
                   nonAuthorVars>>

\* The 'Create Your First Lesson' button of the empty list.
LessonManagement_createFirstLesson ==
    /\ ~lm_isDialogOpen
    /\ lm_lessons = <<>>
    /\ lm_isDialogOpen' = TRUE
    /\ dom' = mountDom(lm_editingLesson, lm_lessonType)
    /\ pending' = orphaned(pending, TRUE, lm_lessonType)
    /\ QuizManager_render(TRUE, lm_lessonType, lm_editingLesson)
    /\ UNCHANGED <<tableVars, lm_lessons, lm_editingLesson, lm_lessonType,
                   lm_submitting, lm_error, lm_fetchLessons, sentCount,
                   lastSubmit, lastAnswer, nonAuthorVars>>

\* The edit button of a lesson of the list, and the effect on editingLesson
\* that sets the lesson type.
LessonManagement_editLesson ==
    /\ ~lm_isDialogOpen
    /\ \E i \in DOMAIN lm_lessons :
          /\ lm_editingLesson' = Some(lm_lessons[i])
          /\ lm_isDialogOpen' = TRUE
          /\ lm_lessonType' = lm_lessons[i].type
          /\ dom' = mountDom(Some(lm_lessons[i]), lm_lessons[i].type)
          /\ pending' = orphaned(pending, TRUE, lm_lessons[i].type)
          /\ QuizManager_render(TRUE, lm_lessons[i].type, Some(lm_lessons[i]))
    /\ UNCHANGED <<tableVars, lm_lessons, lm_submitting, lm_error,
                   lm_fetchLessons, sentCount, lastSubmit, lastAnswer,
                   nonAuthorVars>>

\* onOpenChange(false) of the Dialog: Escape or a click outside.
LessonManagement_closeDialog ==
    /\ lm_isDialogOpen
    /\ ~qm_dialogOpen
    /\ lm_isDialogOpen' = FALSE
    /\ dom' = NoDom
    /\ pending' = orphaned(pending, FALSE, lm_lessonType)
    /\ QuizManager_render(FALSE, lm_lessonType, lm_editingLesson)
    /\ UNCHANGED <<tableVars, lm_lessons, lm_editingLesson, lm_lessonType,
                   lm_submitting, lm_error, lm_fetchLessons, sentCount,
                   lastSubmit, lastAnswer, nonAuthorVars>>

\* The Cancel button of the lesson form.
LessonManagement_cancel ==
    /\ lm_isDialogOpen
    /\ ~qm_dialogOpen
    /\ ~lm_submitting
    /\ lm_isDialogOpen' = FALSE
    /\ lm_editingLesson' = Null
    /\ lm_error' = Null
    /\ lm_lessonType' = "video"
    /\ dom' = NoDom
    /\ pending' = orphaned(pending, FALSE, "video")
    /\ QuizManager_render(FALSE, "video", Null)
    /\ UNCHANGED <<tableVars, lm_lessons, lm_submitting, lm_fetchLessons,
                   sentCount, lastSubmit, lastAnswer, nonAuthorVars>>

\* The inputs that keep only the video fields apart: the content is left as it
\* is whatever the new type.
resetInputs_contentKept(value) ==
    [title |-> dom.title,
     content |-> dom.content,
     video_url |-> IF value # "video" THEN "" ELSE dom.video_url,
     duration_minutes |-> IF value # "video" THEN "" ELSE dom.duration_minutes]

\* The inputs after onValueChange wrote to the elements of the document: the
\* video URL and the duration are emptied unless the new type is 'video', the
\* content unless it is 'text' (an input not rendered is '' before and after).
resetInputs(value) ==
    [title |-> dom.title,
     content |-> IF value # "text" THEN "" ELSE dom.content,
     video_url |-> IF value # "video" THEN "" ELSE dom.video_url,
     duration_minutes |-> IF value # "video" THEN "" ELSE dom.duration_minutes]

\* onValueChange of the lesson type Select: the inputs that do not belong to
\* the new type are emptied, then the form renders for the new type.
LessonManagement_selectType ==
    /\ lm_isDialogOpen
    /\ ~qm_dialogOpen
    /\ \E value \in LessonTypes \ {lm_lessonType} :
          LET cleared == resetInputs(value)
              fresh == mountDom(lm_editingLesson, value)
          IN  /\ lm_lessonType' = value
              /\ dom' =
                    [title |-> cleared.title,
                     content |->
                        IF value = "quiz" THEN ""
                        ELSE IF lm_lessonType \in {"text", "video"}
                             THEN cleared.content ELSE fresh.content,
                     video_url |->
                        IF value # "video" THEN ""
                        ELSE fresh.video_url,
                     duration_minutes |->
                        IF value # "video" THEN ""
                        ELSE fresh.duration_minutes]
              /\ pending' = orphaned(pending, TRUE, value)
              /\ QuizManager_render(TRUE, value, lm_editingLesson)
    /\ UNCHANGED <<tableVars, lm_lessons, lm_isDialogOpen, lm_editingLesson,
                   lm_submitting, lm_error, lm_fetchLessons, sentCount,
                   lastSubmit, lastAnswer, nonAuthorVars>>

\* The user types into an input of the lesson form that is rendered.
LessonForm_input ==
    /\ lm_isDialogOpen
    /\ ~qm_dialogOpen
    /\ \/ \E v \in TitleChoices : dom' = [dom EXCEPT !.title = v]
       \/ /\ lm_lessonType \in {"text", "video"}
          /\ \E v \in ContentChoices : dom' = [dom EXCEPT !.content = v]
       \/ /\ lm_lessonType = "video"
          /\ \E v \in VideoUrlChoices : dom' = [dom EXCEPT !.video_url = v]
       \/ /\ lm_lessonType = "video"
          /\ \E v \in DurationChoices : dom' = [dom EXCEPT !.duration_minutes = v]
    /\ UNCHANGED <<tableVars, lm_lessons, lm_isDialogOpen, lm_editingLesson,
                   lm_submitting, lm_error, lm_lessonType, lm_fetchLessons,
                   qmVars, authorObs, nonAuthorVars>>

\* ---- QuizManager ----

\* !q.question.trim() || q.options.some(opt => !opt.trim())
invalidQuestion(q) ==
    \/ trim(q.question) = <<>>
    \/ \E i \in DOMAIN q.options : trim(q.options[i]) = <<>>

\* questions.filter(invalid question)
invalidQuestions == SelectSeq(qm_questions, invalidQuestion)

\* The toast QuizManager.handleSubmit refuses the draft with, '' if it does not.
quizRefusal ==
    IF Len(qm_questions) = 0 THEN ToastAddQuestion
    ELSE IF Len(invalidQuestions) > 0 THEN ToastFillFields
    ELSE ""

\* quizData of QuizManager.handleSubmit.
quizData ==
    [lesson_id |-> lessonIdOf(lm_editingLesson),
     title |-> qm_title,
     questions |-> qm_questions]

\* The update or insert QuizManager.handleSubmit sends, as the n-th request.
quizRequest(n) ==
    [n |-> n, table |-> "quizzes",
     op |-> IF qm_editingQuiz # Null THEN "update" ELSE "insert",
     id |-> IF qm_editingQuiz # Null THEN qm_editingQuiz[1].id ELSE Null,
     data |-> quizData, via |-> "quiz form", orphan |-> FALSE]

\* A click on the submit button of the quiz form: the browser validates the
\* form (the quiz title is required) and, if it is valid, fires the submit
\* event. QuizManager.handleSubmit handles it up to its await (or its
\* return); the quiz form lies inside the lesson form in the component tree and
\* the event is not stopped, so LessonManagement.handleSubmit handles it next.
QuizForm_submit ==
    /\ qm_dialogOpen
    /\ IF qm_title = ""
       THEN /\ lastSubmit' = submitEvent("quiz", NativeRequired)
            /\ UNCHANGED <<lm_submitting, lm_error, pending, sentCount>>
       ELSE LET sends == quizRefusal = ""
                reqs == IF sends
                        THEN pending \cup {quizRequest(sentCount["quizzes"] + 1)}
                        ELSE pending
            IN  /\ sends => sentCount["quizzes"] < MaxRequests
                /\ LessonManagement_handleSubmit(reqs, "quiz form")
                /\ sentCount' =
                      [t \in Tables |->
                          IF t = "lessons" \/ sends THEN sentCount[t] + 1
                          ELSE sentCount[t]]
                /\ lastSubmit' = submitEvent("quiz", quizRefusal)
    /\ UNCHANGED <<tableVars, lm_lessons, lm_isDialogOpen, lm_editingLesson,
                   lm_lessonType, lm_fetchLessons, dom, qmVars, lastAnswer,
                   nonAuthorVars>>

quizRow(id, data) ==
    [id |-> id, lesson_id |-> data.lesson_id, title |-> data.title,
     questions |-> data.questions]

quizzesAfter(r) ==
    IF r.op = "insert"
    THEN Append(quizRows, quizRow(<<"q", Len(quizRows) + 1>>, r.data))
    ELSE [i \in DOMAIN quizRows |->
            IF quizRows[i].id = r.id THEN quizRow(r.id, r.data) ELSE quizRows[i]]

\* QuizManager.handleSubmit after its await; onQuizCreated is fetchLessons.
QuizManager_handleSubmit_answer ==
    \E r \in pending :
        /\ r.table = "quizzes" /\ r.op # "delete"
        /\ pending' = pending \ {r}
        /\ \/ /\ quizRows' = quizzesAfter(r)
              /\ IF r.orphan
                 THEN UNCHANGED <<qm_dialogOpen, qm_fetchQuizzes>>
                 ELSE qm_dialogOpen' = FALSE /\ qm_fetchQuizzes' = TRUE
              /\ lm_fetchLessons' = TRUE
              /\ lastAnswer' = answered(r, FALSE, IF r.op = "update"
                                                  THEN ToastQuizUpdated
                                                  ELSE ToastQuizCreated)
           \/ /\ lastAnswer' = answered(r, TRUE, ToastQuizFailed)
              /\ UNCHANGED <<quizRows, qm_dialogOpen, qm_fetchQuizzes,
                             lm_fetchLessons>>
        /\ UNCHANGED <<lessonRows, lm_lessons, lm_isDialogOpen, lm_editingLesson,
                       lm_submitting, lm_error, lm_lessonType, dom, qm_quizzes,
                       qm_loading, qm_editingQuiz, qm_title, qm_questions,
                       sentCount, lastSubmit, nonAuthorVars>>

QuizManager_fetchQuizzes_answer ==
    /\ qm_fetchQuizzes
    /\ qm_fetchQuizzes' = FALSE
    /\ qm_loading' = FALSE
    /\ \/ qm_quizzes' =
             SelectSeq(quizRows,
                       LAMBDA q : q.lesson_id = lessonIdOf(lm_editingLesson))
       \/ UNCHANGED qm_quizzes
    /\ UNCHANGED <<tableVars, lmVars, qm_dialogOpen, qm_editingQuiz, qm_title,
                   qm_questions, pending, sentCount, lastSubmit, lastAnswer,
                   nonAuthorVars>>

\* resetForm and setDialogOpen(true)
QuizManager_openCreateDialog ==
    /\ QuizManager_mounted(lm_isDialogOpen, lm_lessonType)
    /\ ~qm_loading
    /\ ~qm_dialogOpen
    /\ qm_title' = ""
    /\ qm_questions' = <<>>
    /\ qm_editingQuiz' = Null
    /\ qm_dialogOpen' = TRUE
    /\ UNCHANGED <<tableVars, lmVars, qm_quizzes, qm_loading, qm_fetchQuizzes,
                   authorObs, nonAuthorVars>>

QuizManager_openEditDialog ==
    /\ QuizManager_mounted(lm_isDialogOpen, lm_lessonType)
    /\ ~qm_loading
    /\ ~qm_dialogOpen
    /\ \E i \in DOMAIN qm_quizzes :
          /\ qm_title' = qm_quizzes[i].title
          /\ qm_questions' = qm_quizzes[i].questions
          /\ qm_editingQuiz' = Some(qm_quizzes[i])
          /\ qm_dialogOpen' = TRUE
    /\ UNCHANGED <<tableVars, lmVars, qm_quizzes, qm_loading, qm_fetchQuizzes,
                   authorObs, nonAuthorVars>>

\* setDialogOpen(false): the Cancel button, Escape or a click outside.
QuizManager_closeDialog ==
    /\ qm_dialogOpen
    /\ qm_dialogOpen' = FALSE
    /\ UNCHANGED <<tableVars, lmVars, qm_quizzes, qm_loading, qm_editingQuiz,
                   qm_title, qm_questions, qm_fetchQuizzes, authorObs,
                   nonAuthorVars>>

QuizManager_setTitle ==
    /\ qm_dialogOpen
    /\ \E v \in QuizTitleChoices : qm_title' = v
    /\ UNCHANGED <<tableVars, lmVars, qm_quizzes, qm_loading, qm_dialogOpen,
                   qm_editingQuiz, qm_questions, qm_fetchQuizzes, authorObs,
                   nonAuthorVars>>

\* A new question with three options.
newQuestion_threeOptions ==
    [question |-> <<>>, options |-> << <<>>, <<>>, <<>> >>, correctAnswer |-> 0]

\* newQuestion of addQuestion.
newQuestion ==
    [question |-> <<>>, options |-> << <<>>, <<>>, <<>>, <<>> >>,
     correctAnswer |-> 0]

QuizManager_addQuestion ==
    /\ qm_dialogOpen
    /\ Len(qm_questions) < MaxQuestions
    /\ qm_questions' = Append(qm_questions, newQuestion)
    /\ UNCHANGED <<tableVars, lmVars, qm_quizzes, qm_loading, qm_dialogOpen,
                   qm_editingQuiz, qm_title, qm_fetchQuizzes, authorObs,
                   nonAuthorVars>>

\* updateQuestion(index, 'question', value) of the prompt input
QuizManager_updateQuestion ==
    /\ qm_dialogOpen
    /\ \E index \in DOMAIN qm_questions, value \in PromptChoices :
          qm_questions' = [qm_questions EXCEPT ![index].question = value]
    /\ UNCHANGED <<tableVars, lmVars, qm_quizzes, qm_loading, qm_dialogOpen,
                   qm_editingQuiz, qm_title, qm_fetchQuizzes, authorObs,
                   nonAuthorVars>>

\* updateQuestion(index, 'correctAnswer', optionIndex) of the radio button
\* rendered for each option of the question.
QuizManager_updateCorrectAnswer ==
    /\ qm_dialogOpen
    /\ \E index \in DOMAIN qm_questions :
       \E optionIndex \in DOMAIN qm_questions[index].options :
          qm_questions' =
             [qm_questions EXCEPT ![index].correctAnswer = optionIndex - 1]
    /\ UNCHANGED <<tableVars, lmVars, qm_quizzes, qm_loading, qm_dialogOpen,
                   qm_editingQuiz, qm_title, qm_fetchQuizzes, authorObs,
                   nonAuthorVars>>

QuizManager_updateQuestionOption ==
    /\ qm_dialogOpen
    /\ \E questionIndex \in DOMAIN qm_questions, value \in OptionChoices :
       \E optionIndex \in DOMAIN qm_questions[questionIndex].options :
          qm_questions' =
             [qm_questions EXCEPT ![questionIndex].options[optionIndex] = value]
    /\ UNCHANGED <<tableVars, lmVars, qm_quizzes, qm_loading, qm_dialogOpen,
                   qm_editingQuiz, qm_title, qm_fetchQuizzes, authorObs,
                   nonAuthorVars>>

QuizManager_removeQuestion ==
    /\ qm_dialogOpen
    /\ \E index \in DOMAIN qm_questions :
          qm_questions' =
             [i \in 1..(Len(qm_questions) - 1) |->
                 IF i < index THEN qm_questions[i] ELSE qm_questions[i + 1]]
    /\ UNCHANGED <<tableVars, lmVars, qm_quizzes, qm_loading, qm_dialogOpen,
                   qm_editingQuiz, qm_title, qm_fetchQuizzes, authorObs,
                   nonAuthorVars>>

NextAuthor ==
    \/ LessonManagement_addLesson
    \/ LessonManagement_createFirstLesson
    \/ LessonManagement_editLesson
    \/ LessonManagement_closeDialog
    \/ LessonManagement_cancel
    \/ LessonManagement_selectType
    \/ LessonForm_input
    \/ LessonForm_submit
    \/ LessonManagement_handleSubmit_answer
    \/ LessonManagement_fetchLessons_answer
    \/ QuizManager_fetchQuizzes_answer
    \/ QuizManager_openCreateDialog
    \/ QuizManager_openEditDialog
    \/ QuizManager_closeDialog
    \/ QuizManager_setTitle
    \/ QuizForm_submit
    \/ QuizManager_handleSubmit_answer

\* The lesson dialog open on a lesson of type 'quiz', new or stored, with the
\* QuizManager just mounted.
QuizInit ==
    /\ lessonRows \in {<<>>, <<StoredLesson>>}
    /\ quizRows = IF lessonRows = <<>> THEN <<>> ELSE <<StoredQuiz>>
    /\ lm_lessons = lessonRows
    /\ lm_isDialogOpen = TRUE
    /\ lm_editingLesson = IF lessonRows = <<>> THEN Null ELSE Some(StoredLesson)
    /\ lm_submitting = FALSE
    /\ lm_error = Null
    /\ lm_lessonType = "quiz"
    /\ lm_fetchLessons = FALSE
    /\ dom \in { [NoDom EXCEPT !.title = v] : v \in TitleChoices }
    /\ qm_quizzes = <<>>
    /\ qm_loading = TRUE
    /\ qm_dialogOpen = FALSE
    /\ qm_editingQuiz = Null
    /\ qm_title = ""
    /\ qm_questions = <<>>
    /\ qm_fetchQuizzes = TRUE
    /\ pending = {}
    /\ sentCount = [t \in Tables |-> 0]
    /\ lastSubmit = NoSubmit
    /\ lastAnswer = NoAnswer

\* The quiz form with its questions edited.
NextQuiz ==
    \/ QuizManager_fetchQuizzes_answer
    \/ QuizManager_openCreateDialog
    \/ QuizManager_openEditDialog
    \/ QuizManager_closeDialog
    \/ QuizManager_setTitle
    \/ QuizManager_addQuestion
    \/ QuizManager_updateQuestion
    \/ QuizManager_updateQuestionOption
    \/ QuizManager_removeQuestion
    \/ QuizForm_submit
    \/ QuizManager_handleSubmit_answer
    \/ LessonManagement_handleSubmit_answer
    \/ LessonManagement_fetchLessons_answer

\* The quiz draft of a lesson with no quiz yet: the questions and the choice
\* of their correct answers.
DraftInit == QuizInit /\ lessonRows = <<>> /\ dom.title = "T"

NextDraft ==
    \/ QuizManager_fetchQuizzes_answer
    \/ QuizManager_openCreateDialog
    \/ QuizManager_closeDialog
    \/ QuizManager_setTitle
    \/ QuizManager_addQuestion
    \/ QuizManager_updateQuestion
    \/ QuizManager_updateCorrectAnswer
    \/ QuizManager_updateQuestionOption
    \/ QuizManager_removeQuestion
    \/ QuizForm_submit
    \/ QuizManager_handleSubmit_answer
    \/ LessonManagement_handleSubmit_answer
    \/ LessonManagement_fetchLessons_answer

\* ---- the delete buttons of the lesson list and of the quiz list ----

\* A delete carries no record.
NoData == [none |-> TRUE]

\* from(table).delete().eq('id', id)
deleteRequest(table, id) ==
    [n |-> 0, table |-> table, op |-> "delete", id |-> id, data |-> NoData,
     via |-> "delete button", orphan |-> FALSE]

\* LessonManagement.handleDelete up to its await, the user having confirmed.
\* The lesson list lies behind the modal dialog.
LessonManagement_handleDelete ==
    /\ ~lm_isDialogOpen
    /\ \E i \in DOMAIN lm_lessons :
          pending' = pending \cup {deleteRequest("lessons", lm_lessons[i].id)}
    /\ UNCHANGED <<tableVars, lmVars, qmVars, sentCount, lastSubmit, lastAnswer,
                   nonAuthorVars>>

\* LessonManagement.handleDelete after its await.
LessonManagement_handleDelete_answer ==
    \E r \in pending :
        /\ r.table = "lessons" /\ r.op = "delete"
        /\ pending' = pending \ {r}
        /\ \/ /\ lessonRows' = SelectSeq(lessonRows, LAMBDA l : l.id # r.id)
              /\ lm_fetchLessons' = TRUE
              /\ lastAnswer' = answered(r, FALSE, ToastLessonDeleted)
           \/ /\ lastAnswer' = answered(r, TRUE, ToastLessonDeleteFailed)
              /\ UNCHANGED <<lessonRows, lm_fetchLessons>>
        /\ UNCHANGED <<quizRows, lm_lessons, lm_isDialogOpen, lm_editingLesson,
                       lm_submitting, lm_error, lm_lessonType, dom, qmVars,
                       sentCount, lastSubmit, nonAuthorVars>>

\* QuizManager.deleteQuiz up to its await, the user having confirmed.
QuizManager_deleteQuiz ==
    /\ QuizManager_mounted(lm_isDialogOpen, lm_lessonType)
    /\ ~qm_loading
    /\ ~qm_dialogOpen
    /\ \E i \in DOMAIN qm_quizzes :
          pending' = pending \cup {deleteRequest("quizzes", qm_quizzes[i].id)}
    /\ UNCHANGED <<tableVars, lmVars, qmVars, sentCount, lastSubmit, lastAnswer,
                   nonAuthorVars>>

\* QuizManager.deleteQuiz after its await.
QuizManager_deleteQuiz_answer ==
    \E r \in pending :
        /\ r.table = "quizzes" /\ r.op = "delete"
        /\ pending' = pending \ {r}
        /\ \/ /\ quizRows' = SelectSeq(quizRows, LAMBDA q : q.id # r.id)
              /\ IF r.orphan THEN UNCHANGED qm_fetchQuizzes
                 ELSE qm_fetchQuizzes' = TRUE
              /\ lastAnswer' = answered(r, FALSE, ToastQuizDeleted)
           \/ /\ lastAnswer' = answered(r, TRUE, ToastQuizDeleteFailed)
              /\ UNCHANGED <<quizRows, qm_fetchQuizzes>>
        /\ UNCHANGED <<lessonRows, lmVars, qm_quizzes, qm_loading, qm_dialogOpen,
                       qm_editingQuiz, qm_title, qm_questions, sentCount,
                       lastSubmit, nonAuthorVars>>

\* The lesson list and the quiz list with their delete buttons, and the steps
\* that bring the quiz list of a lesson onto the page.
NextLists ==
    \/ LessonManagement_handleDelete
    \/ LessonManagement_handleDelete_answer
    \/ LessonManagement_fetchLessons_answer
    \/ LessonManagement_editLesson
    \/ LessonManagement_selectType
    \/ LessonManagement_closeDialog
    \/ QuizManager_fetchQuizzes_answer
    \/ QuizManager_deleteQuiz
    \/ QuizManager_deleteQuiz_answer

\* ---- the order indexes of the lessons of a course ----

MaxLessons == 2

\* k stored lessons with the order indexes 0 .. k-1.
StoredLessons(k) ==
    [i \in 1..k |-> [StoredLesson EXCEPT !.id = <<"l", i>>, !.order_index = i - 1]]

\* The page after its first fetchLessons answered, the course having up to
\* MaxLessons lessons.
OrderInit ==
    /\ lessonRows \in { StoredLessons(k) : k \in 0..MaxLessons }
    /\ quizRows = <<>>
    /\ lm_lessons = lessonRows
    /\ lm_isDialogOpen = FALSE
    /\ lm_editingLesson = Null
    /\ lm_submitting = FALSE
    /\ lm_error = Null
    /\ lm_lessonType = "video"
    /\ lm_fetchLessons = FALSE
    /\ dom = NoDom
    /\ QuizManagerUnmounted
    /\ pending = {}
    /\ sentCount = [t \in Tables |-> 0]
    /\ lastSubmit = NoSubmit
    /\ lastAnswer = NoAnswer

\* Creating, editing and deleting lessons.
NextOrder ==
    \/ LessonManagement_addLesson
    \/ LessonManagement_createFirstLesson
    \/ LessonManagement_editLesson
    \/ LessonManagement_closeDialog
    \/ LessonManagement_cancel
    \/ LessonForm_input
    \/ LessonForm_submit
    \/ LessonManagement_handleSubmit_answer
    \/ LessonManagement_fetchLessons_answer
    \/ LessonManagement_handleDelete
    \/ LessonManagement_handleDelete_answer

------------------------------------------------------------------------------
(* Claims about the authoring forms *)

\* The drafts that pass local validation.
lessonDraftValid(data) ==
    /\ data.title # ""
    /\ data.type = "text" => (data.content # Null /\ data.content[1] # "")

quizDraftValid(data) ==
    /\ data.title # ""
    /\ data.questions # <<>>
    /\ \A i \in DOMAIN data.questions :
          /\ trim(data.questions[i].question) # <<>>
          /\ \A j \in DOMAIN data.questions[i].options :
                data.questions[i].options[j] # <<>>

draftValid(r) ==
    IF r.table = "lessons" THEN lessonDraftValid(r.data)
    ELSE quizDraftValid(r.data)

\* The requests a step sends.
isNewRequest(r) == r.n > sentCount[r.table]

\* A step is a submit event on the form.
isSubmitOf(form) ==
    /\ lastSubmit'.form = form
    /\ lastSubmit' # lastSubmit \/ sentCount' # sentCount

refusedLocally ==
    /\ sentCount' = sentCount
    /\ \A r \in pending' : ~isNewRequest(r)
    /\ lastSubmit'.message # ""

\* C6: no request carries a draft that fails local validation, and submitting
\* such a draft (lesson: empty title, or type 'text' with empty content; quiz:
\* empty title, no question, a blank prompt or an empty option) sends no
\* request and shows a validation message.
C6_InvalidDraftNeverSent ==
    [][/\ \A r \in pending' : isNewRequest(r) => draftValid(r)
       /\ (isSubmitOf("lesson") /\ ~lessonDraftValid(lessonData))
             => refusedLocally
       /\ (isSubmitOf("quiz") /\ ~quizDraftValid(quizData))
             => refusedLocally]_vars

\* C6 for the quiz draft alone: QuizManager sends only valid quiz drafts, and
\* a submit of an invalid one shows a message.
C6_QuizRequestsValid ==
    [][/\ \A r \in pending' :
             (isNewRequest(r) /\ r.table = "quizzes") => draftValid(r)
       /\ (isSubmitOf("quiz") /\ ~quizDraftValid(quizData))
             => (sentCount'["quizzes"] = sentCount["quizzes"]
                 /\ lastSubmit'.message # "")]_vars

\* C6 for submit events of the lesson form itself.
C6_LessonFormRequestsValid ==
    [][/\ \A r \in pending' :
             (isNewRequest(r) /\ r.via = "lesson form") => draftValid(r)
       /\ (isSubmitOf("lesson") /\ ~lessonDraftValid(lessonData))
             => refusedLocally]_vars

\* The drafts of the two dialogs: editing target, type and field values.
lessonDraft == <<lm_editingLesson, lm_lessonType, dom>>

quizDraft == <<qm_editingQuiz, qm_title, qm_questions>>

\* A step is the answer to a create-or-update request of the table, taken with
\* an error or not.
isAnswerOf(table, error) ==
    /\ lastAnswer' # lastAnswer
    /\ lastAnswer'.table = table
    /\ lastAnswer'.error = error

\* A step closes a dialog that was open, or resets its draft.
lessonDraftClosed ==
    lm_isDialogOpen /\ (~lm_isDialogOpen' \/ lessonDraft' # lessonDraft)

quizDraftClosed ==
    qm_dialogOpen /\ (~qm_dialogOpen' \/ quizDraft' # quizDraft)

lessonErrorKeepsDraft ==
    isAnswerOf("lessons", TRUE) =>
        /\ lm_isDialogOpen' = lm_isDialogOpen
        /\ lessonDraft' = lessonDraft
        /\ lm_error' # Null

quizErrorKeepsDraft ==
    isAnswerOf("quizzes", TRUE) =>
        /\ qm_dialogOpen' = qm_dialogOpen
        /\ quizDraft' = quizDraft
        /\ lastAnswer'.toast # ""

\* C13: when the service reports an error for a lesson or quiz submission the
\* dialog stays open with its draft (editing target, type, field values)
\* unchanged and the error is shown; an answer closes a dialog or resets its
\* draft only if it is the successful write of that dialog's draft.
C13_ErrorKeepsDraft ==
    [][/\ lessonErrorKeepsDraft
       /\ quizErrorKeepsDraft
       /\ (lastAnswer' # lastAnswer /\ lessonDraftClosed)
             => isAnswerOf("lessons", FALSE)
       /\ (lastAnswer' # lastAnswer /\ quizDraftClosed)
             => isAnswerOf("quizzes", FALSE)]_vars

\* C13 for the lesson dialog alone.
C13_LessonDialog ==
    [][/\ lessonErrorKeepsDraft
       /\ (lastAnswer' # lastAnswer /\ lessonDraftClosed)
             => isAnswerOf("lessons", FALSE)]_vars

\* C13 for the answers QuizManager.handleSubmit takes: an error leaves the
\* quiz dialog and draft as they are, and only a successful quiz write makes
\* QuizManager close its dialog.
C13_QuizHandler ==
    [][/\ quizErrorKeepsDraft
       /\ (lastAnswer' # lastAnswer /\ lastAnswer'.table = "quizzes"
           /\ quizDraftClosed)
             => isAnswerOf("quizzes", FALSE)]_vars

\* The write requests a step sends, and those it sends to one table.
newRequests == { r \in pending' : isNewRequest(r) }

newRequestsTo(table) == { r \in newRequests : r.table = table }

\* A step is a submit event on the form that passed local validation.
submitPasses(form) == isSubmitOf(form) /\ lastSubmit'.message = ""

\* The request is the update of the record the draft was opened from, or an
\* insert if it was opened from none.
writeOf(r, table, editing, rows) ==
    /\ r.table = table
    /\ IF editing # Null
       THEN /\ r.op = "update" /\ r.id = editing[1].id
            /\ \E i \in DOMAIN rows : rows[i].id = r.id
       ELSE r.op = "insert" /\ r.id = Null

\* C14: a submission that passes local validation sends exactly one write
\* request: an update addressed to the id of the lesson or quiz the draft was
\* opened from, an insert if it was opened from none; never both, never more.
C14_ExactlyOneWrite ==
    [][/\ submitPasses("lesson") =>
             \E r \in newRequests :
                 newRequests = {r}
                 /\ writeOf(r, "lessons", lm_editingLesson, lessonRows)
       /\ submitPasses("quiz") =>
             \E r \in newRequests :
                 newRequests = {r}
                 /\ writeOf(r, "quizzes", qm_editingQuiz, quizRows)]_vars

\* C14 counting, for each form, only the requests to the table of its draft.
C14_OneWriteOfTheDraft ==
    [][/\ submitPasses("lesson") =>
             \E r \in newRequests :
                 newRequests = {r}
                 /\ writeOf(r, "lessons", lm_editingLesson, lessonRows)
       /\ submitPasses("quiz") =>
             \E r \in newRequestsTo("quizzes") :
                 newRequestsTo("quizzes") = {r}
                 /\ writeOf(r, "quizzes", qm_editingQuiz, quizRows)]_vars

\* The step switches the lesson type in the open lesson form.
typeSwitched ==
    /\ lm_isDialogOpen /\ lm_isDialogOpen'
    /\ lm_lessonType' # lm_lessonType

\* C18: switching the lesson type clears exactly the fields that do not belong
\* to the new type: leaving 'video' empties the video URL and the duration,
\* leaving 'text' empties the content, the title is kept, and the content is
\* kept when the new type is 'text'.
C18_SwitchClearsIrrelevant ==
    [][typeSwitched =>
          /\ lm_lessonType = "video" =>
                dom'.video_url = "" /\ dom'.duration_minutes = ""
          /\ lm_lessonType = "text" => dom'.content = ""
          /\ lm_lessonType' # "video" =>
                dom'.video_url = "" /\ dom'.duration_minutes = ""
          /\ lm_lessonType' = "quiz" => dom'.content = ""
          /\ dom'.title = dom.title
          /\ (lm_lessonType = "video" /\ lm_lessonType' = "text") =>
                dom'.content = dom.content]_vars

\* C18 witness: the stored text lesson is edited, its type was switched to
\* 'video', and the content it was opened with is gone.
C18_Witness ==
    /\ lm_isDialogOpen
    /\ lm_editingLesson = Some(StoredLesson)
    /\ StoredLesson.content = Some("c")
    /\ lm_lessonType = "video"
    /\ dom.title = "T"
    /\ dom.content = ""

------------------------------------------------------------------------------
(* NotificationCenter: the notification list and its real-time subscription *)

\* The number of INSERT events the change feed delivers.
MaxDeliveries == 3

\* mockNotifications of fetchNotifications: id and read flag.
mockNotifications ==
    << [id |-> 1, read |-> FALSE], [id |-> 2, read |-> FALSE],
       [id |-> 3, read |-> TRUE], [id |-> 4, read |-> TRUE] >>

\* payload.new of the INSERT events of the notifications table for this user.
InsertEvents == { [id |-> 5, read |-> FALSE], [id |-> 6, read |-> FALSE] }

\* Math.max(0, prev - 1)
decrement(prev) == IF prev - 1 > 0 THEN prev - 1 ELSE 0

NotificationInit ==
    /\ nc_notifications = <<>>
    /\ nc_unreadCount = 0
    /\ nc_loading = TRUE
    /\ delivered = <<>>

\* The effect on userProfile: fetchNotifications (which does not await) and the
\* subscription to the change feed.
NotificationCenter_fetchNotifications ==
    /\ nc_loading
    /\ nc_notifications' = mockNotifications
    /\ nc_unreadCount' =
          Len(SelectSeq(mockNotifications, LAMBDA n : ~n.read))
    /\ nc_loading' = FALSE
    /\ UNCHANGED <<delivered, nonNotificationVars>>

\* The postgres_changes handler: setNotifications(prev => [payload.new,
\* ...prev]) and setUnreadCount(prev => prev + 1).
onInsert(list, count, new) ==
    [notifications |-> <<new>> \o list, unreadCount |-> count + 1]

\* The change feed delivers an INSERT event, for the first time or again.
NotificationCenter_onInsert ==
    /\ ~nc_loading
    /\ Len(delivered) < MaxDeliveries
    /\ \E new \in InsertEvents :
          LET after == onInsert(nc_notifications, nc_unreadCount, new)
          IN  /\ nc_notifications' = after.notifications
              /\ nc_unreadCount' = after.unreadCount
              /\ delivered' = Append(delivered, new)
    /\ UNCHANGED <<nc_loading, nonNotificationVars>>

\* The 'Mark read' button of a notification that is not read.
NotificationCenter_markAsRead ==
    /\ ~nc_loading
    /\ \E i \in DOMAIN nc_notifications :
          /\ ~nc_notifications[i].read
          /\ nc_notifications' =
                [j \in DOMAIN nc_notifications |->
                    IF nc_notifications[j].id = nc_notifications[i].id
                    THEN [nc_notifications[j] EXCEPT !.read = TRUE]
                    ELSE nc_notifications[j]]
          /\ nc_unreadCount' = decrement(nc_unreadCount)
    /\ UNCHANGED <<nc_loading, delivered, nonNotificationVars>>

\* The 'Mark all read' button, shown while unreadCount > 0.
NotificationCenter_markAllAsRead ==
    /\ ~nc_loading
    /\ nc_unreadCount > 0
    /\ nc_notifications' =
          [j \in DOMAIN nc_notifications |->
              [nc_notifications[j] EXCEPT !.read = TRUE]]
    /\ nc_unreadCount' = 0
    /\ UNCHANGED <<nc_loading, delivered, nonNotificationVars>>

\* The delete button of a notification; wasUnread is read from the first
\* notification of the rendered list with that id.
NotificationCenter_deleteNotification ==
    /\ ~nc_loading
    /\ \E i \in DOMAIN nc_notifications :
          LET notificationId == nc_notifications[i].id
              found == CHOOSE j \in DOMAIN nc_notifications :
                          /\ nc_notifications[j].id = notificationId
                          /\ \A k \in 1..(j - 1) :
                                nc_notifications[k].id # notificationId
              wasUnread == nc_notifications[found].read = FALSE
          IN  /\ nc_notifications' =
                    SelectSeq(nc_notifications, LAMBDA n : n.id # notificationId)
              /\ nc_unreadCount' = IF wasUnread THEN decrement(nc_unreadCount)
                                   ELSE nc_unreadCount
    /\ UNCHANGED <<nc_loading, delivered, nonNotificationVars>>

NextNotification ==
    \/ NotificationCenter_fetchNotifications
    \/ NotificationCenter_onInsert
    \/ NotificationCenter_markAsRead
    \/ NotificationCenter_markAllAsRead
    \/ NotificationCenter_deleteNotification

------------------------------------------------------------------------------
(* Claims about the notification centre *)

\* The step delivers an event that was delivered before.
isDuplicateDelivery ==
    /\ Len(delivered') = Len(delivered) + 1
    /\ \E i \in DOMAIN delivered : delivered[i] = delivered'[Len(delivered')]

\* C15: the real-time handler is idempotent against duplicate delivery:
\* delivering an INSERT event again, right after it was delivered, leaves the
\* notification list and the unread count as the first delivery left them.
C15_DuplicateDeliveryIdempotent ==
    [][(isDuplicateDelivery
        /\ delivered # <<>>
        /\ delivered'[Len(delivered')] = delivered[Len(delivered)])
          => /\ nc_notifications' = nc_notifications
             /\ nc_unreadCount' = nc_unreadCount]_vars

\* Every delivery, duplicate or not, puts its notification at the head of the
\* list and adds one to the unread count.
C15_EveryDeliveryPrepends ==
    [][Len(delivered') = Len(delivered) + 1
          => /\ nc_notifications' =
                   <<delivered'[Len(delivered')]>> \o nc_notifications
             /\ nc_unreadCount' = nc_unreadCount + 1]_vars

------------------------------------------------------------------------------
(* EditCourse and LessonManagement: loading the course of the page *)

ToastFailedToLoad == "Failed to load course"
ToastNotAuthorized == "You are not authorized to edit this course"
ToastCourseNotFoundLM == "Course not found"
ToastNoPermission == "You do not have permission to manage this course"

\* userProfile?.id of the userProfile a call closed over.
idOf(profile) == IF profile = Null THEN "undefined" ELSE profile[1].id

roleOf(profile) == IF profile = Null THEN "undefined" ELSE profile[1].role

PagesIdle ==
    /\ ec_course = Null
    /\ ec_fetches = <<>>
    /\ ec_toasts = <<>>
    /\ ec_left = FALSE
    /\ lm_course = Null
    /\ lm_loading = TRUE
    /\ lm_courseFetch = <<>>
    /\ lm_toasts = <<>>
    /\ lm_left = FALSE

\* The first condition of the effect of EditCourse (EditCourse.tsx line 27).
EditCourse_turnsAway(loading_, user_, profile) ==
    ~loading_ /\ (~user_ \/ roleOf(profile) # "teacher")

\* The two pages as they mount, after their first effects ran: the session is
\* still being restored, or it is there already (the page was reached from
\* another page): signed out, or signed in with a profile.
PagesInit ==
    /\ \/ authLoading = TRUE /\ user = FALSE /\ userProfile = Null
       \/ authLoading = FALSE /\ user = FALSE /\ userProfile = Null
       \/ authLoading = FALSE /\ user = TRUE
             /\ userProfile \in { Some(p) : p \in Profiles }
    /\ ec_course = Null
    /\ ec_toasts = <<>>
    /\ ec_left = EditCourse_turnsAway(authLoading, user, userProfile)
    /\ ec_fetches = IF ec_left THEN <<>> ELSE <<userProfile>>
    /\ lm_course = Null
    /\ lm_loading = TRUE
    /\ lm_courseFetch = <<userProfile>>
    /\ lm_toasts = <<>>
    /\ lm_left = FALSE

\* The effect of EditCourse on [user, userProfile, loading, courseId, navigate]
\* (EditCourse.tsx lines 26-35), run with the values the step leaves;
\* fetchCourse closes over the userProfile of that render.
EditCourse_effect ==
    IF ec_left THEN UNCHANGED <<ec_left, ec_fetches>>
    ELSE IF EditCourse_turnsAway(authLoading', user', userProfile')
    THEN ec_left' = TRUE /\ UNCHANGED ec_fetches
    ELSE ec_fetches' = Append(ec_fetches, userProfile') /\ UNCHANGED ec_left

\* AuthContext restores the session while the pages are mounted. The effect of
\* LessonManagement depends on courseId alone and does not run again.
Pages_AuthSession ==
    /\ authLoading /\ ~user
    /\ \E u \in BOOLEAN, l \in BOOLEAN :
          /\ user' = u
          /\ authLoading' = (u /\ l)
    /\ UNCHANGED userProfile
    /\ EditCourse_effect
    /\ UNCHANGED <<ec_course, ec_toasts, lm_course, lm_loading, lm_courseFetch,
                   lm_toasts, lm_left, nonPageVars>>

\* AuthContext receives the profile of the signed-in user.
Pages_AuthProfile ==
    /\ user /\ userProfile = Null
    /\ \E p \in Profiles : userProfile' = Some(p)
    /\ authLoading' = FALSE
    /\ UNCHANGED user
    /\ EditCourse_effect
    /\ UNCHANGED <<ec_course, ec_toasts, lm_course, lm_loading, lm_courseFetch,
                   lm_toasts, lm_left, nonPageVars>>

removeAt(seq, i) == [k \in 1..(Len(seq) - 1) |-> IF k < i THEN seq[k] ELSE seq[k + 1]]

\* A check of the role in place of the owner: any teacher passes.
sameTeacher_anyTeacher(closure) == roleOf(closure) = "teacher"

\* data.teacher_id === userProfile?.id, userProfile being the one the call
\* closed over.
sameTeacher(closure) == CourseRow.teacher_id = idOf(closure)

\* EditCourse.fetchCourse from the answer on (EditCourse.tsx lines 46-60). A
\* page that navigated away is unmounted: its setCourse does nothing.
EditCourse_fetchCourse_answer ==
    /\ \E i \in DOMAIN ec_fetches, failed \in BOOLEAN :
          /\ ec_fetches' = removeAt(ec_fetches, i)
          /\ IF failed
             THEN /\ ec_toasts' = Append(ec_toasts, ToastFailedToLoad)
                  /\ ec_left' = TRUE
                  /\ UNCHANGED ec_course
             ELSE IF ~sameTeacher(ec_fetches[i])
             THEN /\ ec_toasts' = Append(ec_toasts, ToastNotAuthorized)
                  /\ ec_left' = TRUE
                  /\ UNCHANGED ec_course
             ELSE /\ ec_course' = IF ec_left THEN ec_course ELSE Some(CourseRow)
                  /\ UNCHANGED <<ec_toasts, ec_left>>
    /\ UNCHANGED <<authLoading, user, userProfile, lm_course, lm_loading,
                   lm_courseFetch, lm_toasts, lm_left, nonPageVars>>

\* LessonManagement.fetchCourse from the answer on (part_001 lines 60-74).
LessonManagement_fetchCourse_answer ==
    /\ \E i \in DOMAIN lm_courseFetch, failed \in BOOLEAN :
          /\ lm_courseFetch' = removeAt(lm_courseFetch, i)
          /\ IF failed
             THEN /\ lm_toasts' = Append(lm_toasts, ToastCourseNotFoundLM)
                  /\ lm_left' = TRUE
                  /\ UNCHANGED <<lm_course, lm_loading>>
             ELSE IF ~sameTeacher(lm_courseFetch[i])
             THEN /\ lm_toasts' = Append(lm_toasts, ToastNoPermission)
                  /\ lm_left' = TRUE
                  /\ UNCHANGED <<lm_course, lm_loading>>
             ELSE /\ lm_course' = IF lm_left THEN lm_course ELSE Some(CourseRow)
                  /\ lm_loading' = (lm_left /\ lm_loading)
                  /\ UNCHANGED <<lm_toasts, lm_left>>
    /\ UNCHANGED <<authLoading, user, userProfile, ec_course, ec_fetches,
                   ec_toasts, ec_left, nonPageVars>>

\* EditCourse shows its form (EditCourse.tsx lines 117-126).
ec_showsForm == ~ec_left /\ ~(authLoading \/ ec_course = Null)

\* LessonManagement shows the lesson list and its controls (part_001 190-199).
lm_showsControls == ~lm_left /\ ~lm_loading

NextPages ==
    \/ Pages_AuthSession
    \/ Pages_AuthProfile
    \/ EditCourse_fetchCourse_answer
    \/ LessonManagement_fetchCourse_answer

------------------------------------------------------------------------------
(* Claims about the unread count of the notification centre *)

\* The number of notifications of the list whose read flag is false.
unreadInList == Cardinality({ i \in DOMAIN nc_notifications : ~nc_notifications[i].read })

\* C30: after any sequence of real-time insert events, markAsRead,
\* markAllAsRead and deleteNotification, the unread count equals the number of
\* notifications of the list whose read flag is false, and is never negative.
C30_CountMatchesList ==
    /\ nc_unreadCount = unreadInList
    /\ nc_unreadCount >= 0

\* No event was delivered twice.
deliveredOnce ==
    \A i, j \in DOMAIN delivered : delivered[i].id = delivered[j].id => i = j

\* The unread count is never negative, and it equals the number of unread
\* notifications of the list as long as the feed delivered no event twice.
C30_WhenDeliveredOnce ==
    /\ nc_unreadCount >= 0
    /\ deliveredOnce => nc_unreadCount = unreadInList

------------------------------------------------------------------------------
(* Claims about the SearchAndFilter control of the catalog page *)

ascendingByPrice(s) ==
    \A i, j \in DOMAIN s : i < j => PriceOf(s[i].price) <= PriceOf(s[j].price)

descendingByPrice(s) ==
    \A i, j \in DOMAIN s : i < j => PriceOf(s[i].price) >= PriceOf(s[j].price)

\* C28: every sort key the sort control of SearchAndFilter emits is a key the
\* pipeline handles, with the ordering the item names: 'Price: Low to High'
\* and 'Price: High to Low' give a display list in ascending and in descending
\* order of the parsed price.
C28_EmittedKeysHandled ==
    /\ sortBy \in SortSelectItems => sortBy \in SortKeys
    /\ sortBy = "price_low" => ascendingByPrice(filteredCourses)
    /\ sortBy = "price_high" => descendingByPrice(filteredCourses)

\* With a key applyFilters does not name the display list is the filtered
\* catalog in the order of the catalog.
C28_UnnamedKeyKeepsOrder ==
    sortBy \notin SortKeys =>
        filteredCourses = applyFilters(courses, searchQuery, selectedLanguage,
                                       selectedLevel, "newest")

\* 'Price: Low to High' is chosen and the display list is not in ascending
\* order of price.
C28_PriceLowUnsorted ==
    /\ sortBy = "price_low"
    /\ ~ascendingByPrice(filteredCourses)

\* The step is a call of onFilter.
onFilterCalled == lastFilter'.calls = lastFilter.calls + 1

unset(filter) == filter = <<>> \/ filter = All

\* C29: after the Clear action of SearchAndFilter, or after choosing 'All
\* Languages' or 'All Levels' there, the language and the level filter of the
\* catalog page are unset, and the display list is no longer restricted by
\* them.
C29_ClearUnsetsFilters ==
    [][onFilterCalled =>
          /\ lastFilter'.language = Null => unset(selectedLanguage')
          /\ lastFilter'.level = Null => unset(selectedLevel')]_vars

\* What onFilter does: a language or a level that is a non-empty string is
\* set, and a filter handed over as undefined or '' is left as it was.
C29_OnlyChosenValuesSet ==
    [][onFilterCalled =>
          /\ selectedLanguage' = IF truthy(lastFilter'.language)
                                 THEN lastFilter'.language[1]
                                 ELSE selectedLanguage
          /\ selectedLevel' = IF truthy(lastFilter'.level)
                              THEN lastFilter'.level[1]
                              ELSE selectedLevel
          /\ filteredCourses' = applyFilters(courses, searchQuery,
                                             selectedLanguage', selectedLevel',
                                             sortBy)]_vars

\* Clear was the last call of onFilter and the level filter, which only
\* onFilter sets, still restricts the display list.
C29_StillRestricted ==
    /\ lastFilter.language = Null /\ lastFilter.level = Null
    /\ lastFilter.calls > 0
    /\ ~unset(selectedLevel)
    /\ Len(filteredCourses) < Len(courses)

------------------------------------------------------------------------------
(* Claims about the payload of a lesson request *)

\* The lesson create and update requests the step sends.
newLessonWrites(reqs, reqs_) ==
    { r \in reqs_ \ reqs : r.table = "lessons" /\ r.op \in {"insert", "update"} }

\* C24: every lesson create or update request carries exactly one payload
\* shape, that of its type: a video lesson only the video URL and the duration,
\* a text lesson only the content (video URL and duration null), a quiz lesson
\* neither video fields nor content.
C24_OneShapePerType ==
    [][\A r \in newLessonWrites(pending, pending') :
          /\ r.data.type = "video" =>
                r.data.video_url # Null /\ r.data.content = Null
          /\ r.data.type = "text" =>
                /\ r.data.content # Null
                /\ r.data.video_url = Null /\ r.data.duration_minutes = Null
          /\ r.data.type = "quiz" =>
                /\ r.data.content = Null
                /\ r.data.video_url = Null /\ r.data.duration_minutes = Null]_vars

\* The shapes of the text and of the quiz lesson, and the video fields of the
\* video lesson: the video URL is a string, the duration a number or null.
C24_TextAndQuizShapes ==
    [][\A r \in newLessonWrites(pending, pending') :
          /\ r.data.type = "video" => r.data.video_url # Null
          /\ r.data.type = "text" =>
                /\ r.data.content # Null
                /\ r.data.video_url = Null /\ r.data.duration_minutes = Null
          /\ r.data.type = "quiz" =>
                /\ r.data.content = Null
                /\ r.data.video_url = Null /\ r.data.duration_minutes = Null]_vars

\* A video lesson is sent with the notes typed into the content textarea.
C24_VideoWithNotes ==
    \E r \in pending :
        /\ r.table = "lessons" /\ r.op = "insert"
        /\ r.data.type = "video" /\ r.data.content = Some("c")

------------------------------------------------------------------------------
(* Claims about the questions of a quiz draft *)

\* A question has exactly 4 options and a correct-answer index in 0..3.
wellShaped(q) == Len(q.options) = 4 /\ q.correctAnswer \in 0..3

\* C23: in a new quiz draft, after any sequence of addQuestion, updateQuestion,
\* updateQuestionOption and removeQuestion, every question has exactly 4 option
\* strings and a correct-answer index in 0..3, and every question of a quiz
\* that is sent has 4 non-empty options.
C23_QuestionsWellShaped ==
    /\ [](qm_editingQuiz = Null =>
             \A i \in DOMAIN qm_questions : wellShaped(qm_questions[i]))
    /\ [][\A r \in pending' \ pending :
             (r.table = "quizzes" /\ r.op = "insert") =>
                 \A i \in DOMAIN r.data.questions :
                     /\ wellShaped(r.data.questions[i])
                     /\ \A o \in DOMAIN r.data.questions[i].options :
                            /\ r.data.questions[i].options[o] # <<>>
                            /\ trim(r.data.questions[i].options[o]) # <<>>]_vars

\* C23 witness: a new quiz is sent with a question whose correct answer was
\* set to the third option.
C23_Witness ==
    \E r \in pending :
        /\ r.table = "quizzes" /\ r.op = "insert"
        /\ Len(r.data.questions) = 1
        /\ r.data.questions[1].correctAnswer = 2

------------------------------------------------------------------------------
(* Claims about the order of the lessons *)

orderIndexes == { lessonRows[i].order_index : i \in DOMAIN lessonRows }

\* C22: after any sequence of lesson create, edit and delete operations the
\* order indexes of the lessons of the course are pairwise distinct and form
\* the contiguous sequence 0 .. n-1.
C22_OrderContiguous ==
    /\ \A i, j \in DOMAIN lessonRows :
          lessonRows[i].order_index = lessonRows[j].order_index => i = j
    /\ orderIndexes = 0..(Len(lessonRows) - 1)

\* The order indexes are pairwise distinct, with gaps or not.
C22_PairwiseDistinct ==
    \A i, j \in DOMAIN lessonRows :
        lessonRows[i].order_index = lessonRows[j].order_index => i = j

\* What handleSubmit does: a created lesson gets the number of lessons the page
\* lists as its order index, an edited lesson keeps the one it had; a delete
\* changes no order index.
C22_CreateAppendsEditKeeps ==
    [][/\ \A r \in pending' \ pending :
             /\ (r.table = "lessons" /\ r.op = "insert") =>
                    r.data.order_index = Len(lm_lessons)
             /\ (r.table = "lessons" /\ r.op = "update") =>
                    /\ lm_editingLesson # Null
                    /\ r.data.order_index = lm_editingLesson[1].order_index
       /\ Len(lessonRows') < Len(lessonRows) =>
             \A i \in DOMAIN lessonRows' :
                 \E j \in DOMAIN lessonRows : lessonRows'[i] = lessonRows[j]]_vars

------------------------------------------------------------------------------
(* Claims about the buttons that open the lesson dialog for a new lesson *)

\* The draft of a new lesson: no editing target, the default type, the inputs
\* at their empty defaults.
newDraft(editing, type, inputs) ==
    editing = Null /\ type = "video" /\ inputs = mountDom(Null, "video")

\* C27: opening the lesson dialog from 'Add Lesson' or from 'Create Your First
\* Lesson' gives a new draft with no editing target, so that submitting it
\* sends an insert, whatever edit, dismissal or delete came before.
C27_NewLessonButtonsStartNew ==
    [][(LessonManagement_addLesson \/ LessonManagement_createFirstLesson) =>
          /\ lm_isDialogOpen'
          /\ newDraft(lm_editingLesson', lm_lessonType', dom')]_vars

\* 'Add Lesson' gives a new draft in every state, 'Create Your First Lesson'
\* when no editing target was left behind; a submit of the lesson form with no
\* editing target sends an insert.
C27_AddLessonStartsNew ==
    [][/\ LessonManagement_addLesson =>
             lm_isDialogOpen' /\ newDraft(lm_editingLesson', lm_lessonType', dom')
       /\ (LessonManagement_createFirstLesson /\ lm_editingLesson = Null) =>
             lm_isDialogOpen' /\ lm_editingLesson' = Null
       /\ \A r \in newLessonWrites(pending, pending') :
             r.op = "insert" <=> lm_editingLesson = Null]_vars

------------------------------------------------------------------------------
(* Claims about the pages that load their course *)

\* The signed-in user is the teacher of the course.
viewerIsOwner == userProfile # Null /\ idOf(userProfile) = CourseRow.teacher_id

\* The step takes the answer of a fetchCourse of the page.
ec_answered == Len(ec_fetches') < Len(ec_fetches)
lm_answered == Len(lm_courseFetch') < Len(lm_courseFetch)

\* The step shows one more toast, an error toast of fetchCourse.
errorToastShown(toasts, toasts_, texts) ==
    /\ Len(toasts_) = Len(toasts) + 1
    /\ toasts_[Len(toasts_)] \in texts

C26_OwnerNeverTurnedAway ==
    viewerIsOwner =>
        /\ \A i \in DOMAIN ec_toasts : ec_toasts[i] # ToastNotAuthorized
        /\ \A i \in DOMAIN lm_toasts : lm_toasts[i] # ToastNoPermission

\* A fetchCourse turns away for want of authorization only when the
\* userProfile it closed over is not the owner's: a call made once the owner's
\* profile is there loads the course.
C26_OwnerAtCallNotTurnedAway ==
    [][/\ errorToastShown(ec_toasts, ec_toasts', {ToastNotAuthorized}) =>
             \E i \in DOMAIN ec_fetches :
                 /\ ec_fetches' = removeAt(ec_fetches, i)
                 /\ ~sameTeacher(ec_fetches[i])
       /\ errorToastShown(lm_toasts, lm_toasts', {ToastNoPermission}) =>
             \E i \in DOMAIN lm_courseFetch :
                 /\ lm_courseFetch' = removeAt(lm_courseFetch, i)
                 /\ ~sameTeacher(lm_courseFetch[i])]_vars

------------------------------------------------------------------------------
(* Claims about the requests of all components *)

\* Two entries of pending stand for the same request.
sameRequest(r, q) == [r EXCEPT !.orphan = FALSE] = [q EXCEPT !.orphan = FALSE]

\* The save and delete requests a step sends, and those it takes the answer of.
issuedRequests == { r \in pending' : \A q \in pending : ~sameRequest(r, q) }
answeredRequests == { r \in pending : \A q \in pending' : ~sameRequest(r, q) }

\* The transfers a step of the uploaders begins.
issuedTransfers ==
    (fu_transfers' \ fu_transfers)
       \cup ({ t.id : t \in lu_tasks' } \ { t.id : t \in lu_tasks })

Refusals == {"error", "23505"}

\* C20: no automatic retries. A step in which a component takes the failure of
\* a request (enroll, lesson or quiz save, delete, upload) sends no request,
\* and every enroll, save, delete and upload request is sent by a step of the
\* user: a click on an enroll button, a submit, a confirmed delete, a file
\* selection.
C20_NoAutomaticRetry ==
    [][/\ (eb_insert \in Refusals /\ eb_insert' # eb_insert) =>
             eb_insert' = "idle" /\ eb_check' = eb_check /\ eb_count' = eb_count
       /\ (cd_insert \in Refusals /\ cd_insert' # cd_insert) =>
             cd_insert' = "idle" /\ cd_check' = cd_check /\ cd_fetch' = cd_fetch
       /\ (answeredRequests # {} /\ lastAnswer'.error) =>
             /\ issuedRequests = {}
             /\ lm_fetchLessons' => lm_fetchLessons
             /\ qm_fetchQuizzes' => qm_fetchQuizzes
       /\ (\E f \in DOMAIN selected :
              selected[f].result = "none" /\ selected'[f].result = "failed")
             => issuedTransfers = {}
       /\ (eb_insert' = "sent" /\ eb_insert # "sent") =>
             EnrollmentButton_handleEnroll
       /\ (cd_insert' = "sent" /\ cd_insert # "sent") =>
             CourseDetail_handleEnroll
       /\ issuedRequests # {} =>
             \/ LessonForm_submit
             \/ QuizForm_submit
             \/ LessonManagement_handleDelete
             \/ QuizManager_deleteQuiz
       /\ issuedTransfers # {} =>
             \/ FileUploader_handleFileSelect
             \/ LessonUploader_handleFileSelect]_vars

\* C20 witness: EnrollmentButton took the failure of its insert and is at rest,
\* with no request in flight.
C20_Witness ==
    /\ lastInsertResult["EnrollmentButton"] = "error"
    /\ eb_toast = ToastFailedEnroll
    /\ eb_insert = "idle"
    /\ ~eb_enrolling
    /\ \A c \in CallSites : eb_check[c] = "idle" /\ eb_count[c] = "idle"

------------------------------------------------------------------------------
(* Specifications *)

InitCatalog ==
    /\ CatalogInit /\ EnrollIdle /\ UploadIdle /\ AuthorIdle
    /\ NotificationInit /\ PagesIdle
    /\ focus = "catalog"

SpecCatalog == InitCatalog /\ [][NextCatalog]_vars

InitFilter ==
    /\ CatalogInit /\ EnrollIdle /\ UploadIdle /\ AuthorIdle
    /\ NotificationInit /\ PagesIdle
    /\ focus = "filter"

SpecFilter == InitFilter /\ [][NextFilter]_vars

\* The catalog pipeline applied to a loaded catalog that may hold a malformed
\* price string.
InitPrice ==
    /\ PriceInit /\ EnrollIdle /\ UploadIdle /\ AuthorIdle
    /\ NotificationInit /\ PagesIdle
    /\ focus = "catalog"

SpecPrice == InitPrice /\ [][NextPrice]_vars

InitEnroll ==
    /\ EnrollInit /\ CatalogInit /\ UploadIdle /\ AuthorIdle
    /\ NotificationInit /\ PagesIdle
    /\ focus = "enroll"

SpecEnroll == InitEnroll /\ [][NextEnroll]_vars

InitUpload ==
    /\ UploadInit /\ CatalogInit /\ EnrollIdle /\ AuthorIdle
    /\ NotificationInit /\ PagesIdle
    /\ focus = "upload"

SpecUpload == InitUpload /\ [][NextUpload]_vars

\* The upload trackers with their scheduling: the storage service answers every
\* transfer, and the timers of simulateUpload fire.
SpecUploadLive ==
    /\ InitUpload /\ [][NextUpload]_vars
    /\ WF_vars(FileUploader_uploadFile_answer)
    /\ WF_vars(LessonUploader_simulateUpload_progress)
    /\ WF_vars(LessonUploader_simulateUpload_finish)

InitNotification ==
    /\ NotificationInit /\ CatalogInit /\ EnrollIdle /\ UploadIdle /\ AuthorIdle
    /\ PagesIdle
    /\ focus = "notifications"

SpecNotification == InitNotification /\ [][NextNotification]_vars

InitAuthor ==
    /\ AuthorInit /\ CatalogInit /\ EnrollIdle /\ UploadIdle
    /\ NotificationInit /\ PagesIdle
    /\ focus = "forms"

SpecAuthor == InitAuthor /\ [][NextAuthor]_vars

InitQuiz ==
    /\ QuizInit /\ CatalogInit /\ EnrollIdle /\ UploadIdle
    /\ NotificationInit /\ PagesIdle
    /\ focus = "forms"

SpecQuiz == InitQuiz /\ [][NextQuiz]_vars

InitDraft ==
    /\ DraftInit /\ CatalogInit /\ EnrollIdle /\ UploadIdle
    /\ NotificationInit /\ PagesIdle
    /\ focus = "draft"

SpecDraft == InitDraft /\ [][NextDraft]_vars

InitOrder ==
    /\ OrderInit /\ CatalogInit /\ EnrollIdle /\ UploadIdle
    /\ NotificationInit /\ PagesIdle
    /\ focus = "order"

SpecOrder == InitOrder /\ [][NextOrder]_vars

InitLists ==
    /\ AuthorInit /\ CatalogInit /\ EnrollIdle /\ UploadIdle
    /\ NotificationInit /\ PagesIdle
    /\ focus = "lists"

\* Every component that sends enroll, save, delete or upload requests, the user
\* working with one of them: the enroll controls, the uploaders, the authoring
\* forms, or the lesson and quiz lists.
InitRequests == InitEnroll \/ InitUpload \/ InitAuthor \/ InitLists

NextRequests ==
    \/ focus = "enroll" /\ NextEnroll
    \/ focus = "upload" /\ NextUpload
    \/ focus = "forms" /\ NextAuthor
    \/ focus = "lists" /\ NextLists

SpecRequests == InitRequests /\ [][NextRequests]_vars

InitPages ==
    /\ PagesInit /\ EnrollControlsIdle /\ CatalogInit /\ UploadIdle /\ AuthorIdle
    /\ NotificationInit
    /\ focus = "pages"

SpecPages == InitPages /\ [][NextPages]_vars

====
